---------------------------- MODULE Spec2Model ----------------------------
(***************************************************************************)
(* A model of the detection core of MarketDataAnomalyDetection:            *)
(*   - the rule-based detectors (MissingDataDetector, PriceMovementDetector)*)
(*   - the DataSourceManager (adapter registry, health-check loop, fan-out) *)
(*   - the AnomalyMLModel life cycle (train / predict / save / load)        *)
(* Each component has its own specification over the shared variables; a   *)
(* specification leaves the other components' variables untouched.         *)
(***************************************************************************)
EXTENDS Integers, Sequences, FiniteSets, TLC

VARIABLES
    \* ---- detectors (one detect() call on one input batch) ----
    data_points,      \* the input batch: a sequence of [symbol, timestamp, price]
    threshold,        \* threshold_minutes / threshold_percent of the detector
    window_size,      \* window_size of the TimeSeriesAnomalyModel (0 for the other detectors)
    symbol_data,      \* per symbol, the frame after sort_values('timestamp')
    anomalies,        \* the list detect() returned
    det_pc,           \* "ready" before the call, "done" after it returned, "raised"
                      \* after an exception left it
    called,           \* history: the public call that was made, "none" before it
    \* ---- DataSourceManager and its adapters ----
    adapters,         \* self.adapters: the registered names, in dict insertion order
    connected,        \* _connected of the adapter registered under each name
    last_heartbeat,   \* _last_heartbeat of the adapter registered under each name
    reachable,        \* environment: is the backing store of each source reachable
    health_check_task,\* self._health_check_task: 0 for None, else a task id
    health_tasks,     \* every _health_check_loop task created so far, by task id
    lifecycle,        \* the caller of initialize() / shutdown() and its position
    query,            \* the caller of get_latest_data / get_historical_data
    connect_failed,   \* history: names whose connect failed in the current initialize()
    to_disconnect,    \* history: names registered at shutdown() entry, not yet disconnected
    \* ---- AnomalyMLModel ----
    ml_self,          \* the object: contamination, model, scaler, is_trained
    ml_file,          \* the model file: <<>> while missing, else <<what joblib.dump wrote>>
    ml_last,          \* the last call made on the object, its input and what it returned
    ml_trained_once,  \* history: a train() succeeded or a trained model was loaded
    ml_saved,         \* history: <<the object as it was when the file was last written>>
    \* ---- one adapter object used directly ----
    adapter_call,     \* the adapter under study and the last call made on it
    stream,           \* the async generator stream_data() returned, and its position
    \* ---- ConfigLoader and the alert rule engine ----
    config,           \* the YAML file being loaded and the list the loader returned
    engine            \* one alert rule, the clock, and the rule's rate and cooldown state

det_vars == <<data_points, threshold, window_size, symbol_data, anomalies, det_pc, called>>

mgr_vars == <<adapters, connected, last_heartbeat, reachable, health_check_task,
              health_tasks, lifecycle, query, connect_failed, to_disconnect>>

ml_vars == <<ml_self, ml_file, ml_last, ml_trained_once, ml_saved>>

ad_vars == <<adapter_call, stream>>

eng_vars == <<engine, config>>

vars == <<det_vars, mgr_vars, ml_vars, ad_vars, eng_vars>>

-----------------------------------------------------------------------------
(* Bounds of the input batches *)

MaxPoints == 3          \* longest batch given to the missing-data detector
MaxTick == 4            \* timestamps are 0 .. MaxTick ticks
TickSeconds == 1800     \* one tick of the sampled timestamps, in seconds
MaxPricePoints == 3     \* longest batch given to the price-movement detector
MaxPriceTick == 1       \* timestamps of the price batches are 0 .. MaxPriceTick ticks

MaxInits == 2           \* initialize() calls made on one manager
MaxRows == 1            \* most data points one adapter returns to one query
MaxDatasets == 2        \* distinct well-formed training sets

SymbolList == <<"AAPL", "MSFT">>
Symbols == {SymbolList[k] : k \in 1..Len(SymbolList)}

(* Program constants *)
DefaultThresholdMinutes == 30
SecondsPerMinute == 60
DefaultThresholdPercent == 5
DefaultPrice == 100

Times == {k * TickSeconds : k \in 0..MaxTick}
PriceTimes == {k * TickSeconds : k \in 0..MaxPriceTick}
Prices == {100, 105, 110, 120}
MinuteThresholds == {DefaultThresholdMinutes, 2 * DefaultThresholdMinutes}
PercentThresholds == {DefaultThresholdPercent, 2 * DefaultThresholdPercent}

MissingPoints == [symbol : Symbols, timestamp : Times, price : {DefaultPrice}]
PricePoints == [symbol : Symbols, timestamp : PriceTimes, price : Prices]

Batches(points, n) == UNION {[1..k -> points] : k \in 0..n}

-----------------------------------------------------------------------------
(* The state each component is in after construction.  A specification of   *)
(* one component starts the others there and leaves them there.             *)

\* _load_data_source_configs: the two configured sources, in configuration order
ConfigNames == <<"gemfire_cache", "mssql_historical">>
Names == {ConfigNames[k] : k \in 1..Len(ConfigNames)}
TaskIds == 1..MaxInits

NoTask == [pc |-> "none", pos |-> 0, size |-> 0, name |-> "", test |-> "",
           stale |-> FALSE, cycle |-> <<>>, checked |-> {}]
NoCall == [op |-> "none", adapter |-> "", symbols |-> <<>>, limit |-> 0,
           result |-> <<>>, returned |-> "", before |-> FALSE]

NoStream == [pc |-> "none", symbols |-> <<>>, pending |-> 0, polls |-> 0, yielded |-> 0,
             dropped |-> FALSE, polls_after_drop |-> 0, sleeps_after_drop |-> 0,
             entered_connected |-> FALSE]

NoQuery == [pc |-> "idle", kind |-> "", tasks |-> <<>>, idx |-> 0,
            outcomes |-> <<>>, all_data |-> <<>>, started |-> <<>>]

DetectorsIdle ==
    /\ data_points = <<>>
    /\ threshold = 0
    /\ window_size = 0
    /\ symbol_data = [s \in Symbols |-> <<>>]
    /\ anomalies = <<>>
    /\ det_pc = "idle"
    /\ called = "none"

\* nothing was loaded and no alert rule is being evaluated
NoConfig == [kind |-> "none", entries |-> <<>>, pc |-> "idle", loaded |-> <<>>]

NoEngine == [pc |-> "idle"]

\* DataSourceManager.__init__
RegistryConstructed ==
    /\ adapters = <<>>
    /\ connected = [a \in Names |-> FALSE]
    /\ last_heartbeat = [a \in Names |-> "None"]
    /\ health_check_task = 0
    /\ health_tasks = [t \in TaskIds |-> NoTask]
    /\ lifecycle = [pc |-> "idle", idx |-> 0, inits |-> 0, last |-> "none"]
    /\ query = NoQuery
    /\ connect_failed = {}
    /\ to_disconnect = {}
    /\ adapter_call = NoCall
    /\ stream = NoStream

ManagerConstructed ==
    /\ RegistryConstructed
    /\ config = NoConfig
    /\ engine = NoEngine

ManagerUnused == ManagerConstructed /\ reachable = [a \in Names |-> TRUE]

\* AnomalyMLModel.__init__: a fresh IsolationForest and StandardScaler (0: not
\* fitted; d > 0: fitted on training set d)
NewModel(contamination) ==
    [contamination |-> contamination, model |-> 0, scaler |-> 0,
     is_trained |-> FALSE, feature_columns |-> "price..time_since_last_update"]

MLConstructed(contamination) ==
    /\ ml_self = NewModel(contamination)
    /\ ml_file = <<>>
    /\ ml_last = [op |-> "none", input |-> "", failure |-> "none", result |-> ""]
    /\ ml_trained_once = FALSE
    /\ ml_saved = <<>>

MLUnused == MLConstructed("valid")

-----------------------------------------------------------------------------
(* pandas helpers shared by the two detectors *)

RECURSIVE Unique(_)
\* df['symbol'].unique(): the symbols in order of first appearance
Unique(seq) ==
    IF seq = <<>> THEN <<>>
    ELSE LET front == Unique(SubSeq(seq, 1, Len(seq) - 1))
             last == seq[Len(seq)].symbol
         IN IF \E i \in 1..Len(front) : front[i] = last
            THEN front ELSE Append(front, last)

\* df[df['symbol'] == symbol]: the rows of one symbol, in input order
RowsOf(seq, s) == SelectSeq(seq, LAMBDA p : p.symbol = s)

Bijections(n) == {f \in [1..n -> 1..n] : \A i, j \in 1..n : f[i] = f[j] => i = j}

\* sort_values('timestamp') uses pandas' default sort kind (quicksort), which
\* does not promise an order among equal timestamps: every arrangement of
\* the rows in nondecreasing timestamp order is a possible outcome.
SortedFrames(frame) ==
    {g \in {[i \in 1..Len(frame) |-> frame[f[i]]] : f \in Bijections(Len(frame))} :
        \A i \in 1..(Len(frame) - 1) : g[i].timestamp <= g[i + 1].timestamp}

RECURSIVE Flatten(_)
\* anomalies.append(...) over the symbols, in the order the loop visits them
Flatten(seqs) ==
    IF seqs = <<>> THEN <<>>
    ELSE Flatten(SubSeq(seqs, 1, Len(seqs) - 1)) \o seqs[Len(seqs)]

-----------------------------------------------------------------------------
(* MissingDataDetector (missing_data_detector.py) *)

\* (current_time - previous_time).total_seconds(): timestamps are in seconds
GapSeconds(previous, current) == current.timestamp - previous.timestamp

GapExceedsMutant(gap, minutes) == gap >= minutes * SecondsPerMinute

\* gap_minutes = seconds / 60 ; gap_minutes > minutes.  For a whole number of
\* seconds and a whole number of minutes the float quotient compares with
\* `minutes` exactly as seconds compares with 60 * minutes.
GapExceeds(gap, minutes) == gap > minutes * SecondsPerMinute

MissingSeverityMutant(gap, thr) == IF GapExceeds(gap, thr) THEN "high" ELSE "medium"

\* 'high' if gap_minutes > self.threshold_minutes * 2 else 'medium'
MissingSeverity(gap, thr) == IF GapExceeds(gap, thr * 2) THEN "high" ELSE "medium"

MissingAnomaly(s, previous, current, thr) ==
    [symbol |-> s,
     anomaly_type |-> "missing_data",
     severity |-> MissingSeverity(GapSeconds(previous, current), thr),
     gap_seconds |-> GapSeconds(previous, current),
     last_data_time |-> previous.timestamp,
     next_data_time |-> current.timestamp]

\* for i in range(1, len(symbol_data)): one anomaly per gap over the threshold
MissingForSymbol(frame, s, thr) ==
    LET pairs == [i \in 1..(Len(frame) - 1) |-> <<frame[i], frame[i + 1]>>]
        over == SelectSeq(pairs, LAMBDA pr : GapExceeds(GapSeconds(pr[1], pr[2]), thr))
    IN [k \in 1..Len(over) |-> MissingAnomaly(s, over[k][1], over[k][2], thr)]

RECURSIVE FrameLists(_, _)
\* per symbol of SymbolList[1..k], one sorted arrangement of its rows
FrameLists(batch, k) ==
    IF k = 0 THEN {<<>>}
    ELSE {Append(f, g) : f \in FrameLists(batch, k - 1),
                         g \in SortedFrames(RowsOf(batch, SymbolList[k]))}

\* the frames one detect() call may see: per symbol, one sorted arrangement
FrameChoices(batch) ==
    {[s \in Symbols |-> fl[CHOOSE k \in 1..Len(SymbolList) : SymbolList[k] = s]] :
        fl \in FrameLists(batch, Len(SymbolList))}

\* an unparsable timestamp: a string pd.to_datetime rejects; as a string it
\* sorts after every ISO timestamp
BadTime == (MaxTick + 1) * TickSeconds

\* does detect() leave by an exception: pd.to_datetime is applied to the rows
\* of every symbol that has two rows or more
MissingRaisesFor(frame) ==
    Len(frame) >= 2 /\ \E i \in 1..Len(frame) : frame[i].timestamp = BadTime

MissingRaises(batch) == \E s \in Symbols : MissingRaisesFor(RowsOf(batch, s))

MissingDetect ==
    /\ det_pc = "ready"
    /\ IF MissingRaises(data_points)
       THEN /\ det_pc' = "raised"
            /\ UNCHANGED <<symbol_data, anomalies>>
       ELSE /\ \E sd \in FrameChoices(data_points) :
                 LET U == Unique(data_points)
                 IN /\ symbol_data' = sd
                    /\ anomalies' = Flatten([k \in 1..Len(U) |->
                                        MissingForSymbol(sd[U[k]], U[k], threshold)])
            /\ det_pc' = "done"
    /\ called' = "MissingDataDetector.detect"
    /\ UNCHANGED <<data_points, threshold, window_size, mgr_vars, ml_vars, ad_vars, eng_vars>>

DetInit(points, n, thresholds) ==
    /\ data_points \in Batches(points, n)
    /\ threshold \in thresholds
    /\ window_size = 0
    /\ symbol_data = [s \in Symbols |-> <<>>]
    /\ anomalies = <<>>
    /\ det_pc = "ready"
    /\ called = "none"
    /\ ManagerUnused
    /\ MLUnused

MissingInit == DetInit(MissingPoints, MaxPoints, MinuteThresholds)

MissingNext == MissingDetect

MissingSpec == MissingInit /\ [][MissingNext]_vars

-----------------------------------------------------------------------------
(* Double-precision arithmetic of the price-change computation.             *)
(* price_movement_detector.py line 31 computes, in IEEE-754 binary64 with   *)
(* round-to-nearest-even,                                                   *)
(*     pct_change() * 100  =  fl( fl( fl(p[i] / p[i-1]) - 1 ) * 100 )       *)
(* (pandas' pct_change is data / data.shift(1) - 1).  The result is compared *)
(* with the threshold, so the roundings decide the boundary cases: for       *)
(* 100 -> 105 it is 5.000000000000004, not 5.  Natural numbers are kept as   *)
(* bit sequences, most significant bit first, without leading zeros; a       *)
(* float is [neg, m, e] and stands for (-1)^neg * m * 2^e.                   *)

MantissaBits == 53      \* significant bits of a binary64
DivShift == 64          \* fraction bits a quotient is developed to before rounding
ChunkBits == 8          \* the big-number helpers work on digits of ChunkBits bits

Zeros(k) == [i \in 1..k |-> 0]

RECURSIVE Pow2(_)
Pow2(k) == IF k = 0 THEN 1 ELSE 2 * Pow2(k - 1)

RECURSIVE NatBits(_)
NatBits(n) == IF n = 0 THEN <<>> ELSE Append(NatBits(n \div 2), n % 2)

\* b without its leading zeros
Strip(b) ==
    LET ones == {i \in 1..Len(b) : b[i] = 1}
    IN IF ones = {} THEN <<>>
       ELSE SubSeq(b, CHOOSE i \in ones : \A j \in ones : i <= j, Len(b))

\* -1, 0, 1 as a < b, a = b, a > b
BigCmp(a, b) ==
    IF Len(a) # Len(b) THEN (IF Len(a) > Len(b) THEN 1 ELSE -1)
    ELSE IF a = b THEN 0
    ELSE LET i == CHOOSE i \in 1..Len(a) :
                      a[i] # b[i] /\ \A j \in 1..(i - 1) : a[j] = b[j]
         IN IF a[i] > b[i] THEN 1 ELSE -1

\* a + 1
BigInc(a) ==
    LET zs == {i \in 1..Len(a) : a[i] = 0}
    IN IF zs = {} THEN <<1>> \o Zeros(Len(a))
       ELSE LET k == CHOOSE i \in zs : \A j \in zs : j <= i
            IN [i \in 1..Len(a) |-> IF i < k THEN a[i] ELSE IF i = k THEN 1 ELSE 0]

RECURSIVE ChunkValue(_)
ChunkValue(bits) ==
    IF bits = <<>> THEN 0
    ELSE 2 * ChunkValue(SubSeq(bits, 1, Len(bits) - 1)) + bits[Len(bits)]

\* the digits (base 2^ChunkBits, most significant first) of a bit sequence
ToDigits(bits) ==
    LET nd == (Len(bits) + ChunkBits - 1) \div ChunkBits
        padded == Zeros(nd * ChunkBits - Len(bits)) \o bits
    IN [j \in 1..nd |->
          ChunkValue(SubSeq(padded, (j - 1) * ChunkBits + 1, j * ChunkBits))]

\* the bit sequence of a digit sequence
FromDigits(digits) ==
    Strip([i \in 1..(Len(digits) * ChunkBits) |->
             (digits[(i - 1) \div ChunkBits + 1]
                 \div Pow2(ChunkBits - 1 - ((i - 1) % ChunkBits))) % 2])

RECURSIVE DigitsSub(_, _, _, _)
DigitsSub(a, b, i, borrow) ==
    IF i = 0 THEN <<>>
    ELSE LET d == a[i] - b[i] - borrow
         IN Append(DigitsSub(a, b, i - 1, IF d < 0 THEN 1 ELSE 0),
                   IF d < 0 THEN d + Pow2(ChunkBits) ELSE d)

\* a - b for a >= b
BigSub(a, b) ==
    LET da == ToDigits(a)
        db0 == ToDigits(b)
        db == Zeros(Len(da) - Len(db0)) \o db0
    IN FromDigits(DigitsSub(da, db, Len(da), 0))

RECURSIVE DigitsMul(_, _, _, _)
DigitsMul(a, k, i, carry) ==
    IF i = 0 THEN <<carry>>
    ELSE LET v == a[i] * k + carry
         IN Append(DigitsMul(a, k, i - 1, v \div Pow2(ChunkBits)), v % Pow2(ChunkBits))

\* a * k for a whole k < 2^ChunkBits
BigMulSmall(a, k) ==
    LET da == ToDigits(a)
    IN FromDigits(DigitsMul(da, k, Len(da), 0))

RECURSIVE DigitsDiv(_, _, _)
\* the quotient digits and the remainder of (the first i digits of d) / b
DigitsDiv(d, b, i) ==
    IF i = 0 THEN [q |-> <<>>, r |-> 0]
    ELSE LET p == DigitsDiv(d, b, i - 1)
             r2 == p.r * Pow2(ChunkBits) + d[i]
         IN [q |-> Append(p.q, r2 \div b), r |-> r2 % b]

\* the quotient bits and the remainder of the natural d / b
LongDiv(d, b) ==
    LET dd == ToDigits(d)
        qr == DigitsDiv(dd, b, Len(dd))
    IN [q |-> FromDigits(qr.q), r |-> qr.r]

\* round-to-nearest-even of the natural `bits` (followed by a remainder when
\* sticky) to MantissaBits significant bits: the result is m * 2^shift
Round53(bits, sticky) ==
    IF Len(bits) <= MantissaBits THEN [m |-> bits, shift |-> 0]
    ELSE LET head == SubSeq(bits, 1, MantissaBits)
             guard == bits[MantissaBits + 1]
             rest == sticky \/ \E i \in (MantissaBits + 2)..Len(bits) : bits[i] = 1
             up == guard = 1 /\ (rest \/ head[MantissaBits] = 1)
             m0 == IF up THEN BigInc(head) ELSE head
         IN IF Len(m0) > MantissaBits
            THEN [m |-> SubSeq(m0, 1, MantissaBits), shift |-> Len(bits) - MantissaBits + 1]
            ELSE [m |-> m0, shift |-> Len(bits) - MantissaBits]

\* fl(a / b) for positive whole a, b
FDiv(a, b) ==
    LET d == NatBits(a) \o Zeros(DivShift)
        qr == LongDiv(d, b)
        r == Round53(qr.q, qr.r # 0)
    IN [neg |-> FALSE, m |-> r.m, e |-> r.shift - DivShift]

\* fl(x - 1) for a positive float x with x.e <= 0
FSubOne(x) ==
    LET one == <<1>> \o Zeros(0 - x.e)
        c == BigCmp(x.m, one)
        d == IF c >= 0 THEN BigSub(x.m, one) ELSE BigSub(one, x.m)
        r == Round53(d, FALSE)
    IN [neg |-> c < 0, m |-> r.m, e |-> x.e + r.shift]

\* fl(x * k) for a small whole k
FMulSmall(x, k) ==
    LET r == Round53(BigMulSmall(x.m, k), FALSE)
    IN [neg |-> x.neg, m |-> r.m, e |-> x.e + r.shift]

\* abs(x) > t for a whole t >= 0
FAbsGt(x, t) ==
    IF x.m = <<>> THEN FALSE
    ELSE IF x.e >= 0 THEN BigCmp(x.m \o Zeros(x.e), NatBits(t)) > 0
    ELSE IF t = 0 THEN TRUE
    ELSE BigCmp(x.m, NatBits(t) \o Zeros(0 - x.e)) > 0

-----------------------------------------------------------------------------
(* PriceMovementDetector (price_movement_detector.py) *)

\* symbol_data['price'].pct_change() * 100 for one row and the row before it
PriceChangeOf(previous, current) == FMulSmall(FSubOne(FDiv(current, previous)), 100)

\* the same, tabulated over the sampled prices
\* (@@ makes TLC build the table once instead of re-evaluating an entry per use)
PriceChangeTable == [pr \in Prices \X Prices |-> PriceChangeOf(pr[1], pr[2])] @@ <<>>

PriceChange(previous, current) == PriceChangeTable[<<previous.price, current.price>>]

\* abs_change > self.threshold_percent
MovementExceeds(change, percent) == FAbsGt(change, percent)

\* 'critical' if abs_change > self.threshold_percent * 2 else 'high'
PriceSeverity(change, thr) == IF MovementExceeds(change, thr * 2) THEN "critical" ELSE "high"

\* `row` is the position of the row in the symbol's sorted frame
PriceAnomaly(s, frame, i, thr) ==
    [symbol |-> s,
     anomaly_type |-> "price_movement",
     severity |-> PriceSeverity(PriceChange(frame[i - 1], frame[i]), thr),
     current_price |-> frame[i].price,
     timestamp |-> frame[i].timestamp,
     row |-> i]

\* len(symbol_data) < 2: continue; the first row's price_change is NaN and is
\* skipped; every later row is reported when its change is over the threshold
PriceForSymbol(frame, s, thr) ==
    IF Len(frame) < 2 THEN <<>>
    ELSE LET rows == [i \in 1..(Len(frame) - 1) |-> i + 1]
             over == SelectSeq(rows, LAMBDA i :
                         MovementExceeds(PriceChange(frame[i - 1], frame[i]), thr))
         IN [k \in 1..Len(over) |-> PriceAnomaly(s, frame, over[k], thr)]

\* a point without the field (NaN in the frame when other points have it)
NoValue == 0 - 1

\* does detect() leave by an exception: symbol_data['price'] when no point of
\* the batch has a price and a symbol has two rows or more
PriceRaisesFor(batch, frame) ==
    Len(frame) >= 2 /\ \A i \in 1..Len(batch) : batch[i].price = NoValue

PriceRaises(batch) == \E s \in Symbols : PriceRaisesFor(batch, RowsOf(batch, s))

PriceDetect ==
    /\ det_pc = "ready"
    /\ IF PriceRaises(data_points)
       THEN /\ det_pc' = "raised"
            /\ UNCHANGED <<symbol_data, anomalies>>
       ELSE /\ \E sd \in FrameChoices(data_points) :
                 LET U == Unique(data_points)
                 IN /\ symbol_data' = sd
                    /\ anomalies' = Flatten([k \in 1..Len(U) |->
                                        PriceForSymbol(sd[U[k]], U[k], threshold)])
            /\ det_pc' = "done"
    /\ called' = "PriceMovementDetector.detect"
    /\ UNCHANGED <<data_points, threshold, window_size, mgr_vars, ml_vars, ad_vars, eng_vars>>

PriceInit == DetInit(PricePoints, MaxPricePoints, PercentThresholds)

PriceNext == PriceDetect

PriceSpec == PriceInit /\ [][PriceNext]_vars

-----------------------------------------------------------------------------
(* Claims about MissingDataDetector, checked under MissingSpec *)

\* the timestamps of symbol s in the input batch
TimestampsOf(s) ==
    {data_points[i].timestamp : i \in {j \in DOMAIN data_points : data_points[j].symbol = s}}

\* the pairs of timestamps of s that are neighbours in time order
Neighbours(s) ==
    {pr \in TimestampsOf(s) \X TimestampsOf(s) :
        /\ pr[1] < pr[2]
        /\ ~ \E t \in TimestampsOf(s) : pr[1] < t /\ t < pr[2]}

\* C1: detect() returns exactly one missing_data anomaly for each pair of
\* time-neighbouring points of a symbol whose gap is strictly more than
\* threshold_minutes, whatever the input order, and nothing else: a gap equal
\* to the threshold, equal timestamps, and a symbol with 0 or 1 points give
\* no anomaly.
C1_MissingIffGapOverThreshold ==
    det_pc = "done" =>
        /\ \A k \in DOMAIN anomalies : anomalies[k].anomaly_type = "missing_data"
        /\ \A s \in Symbols :
            /\ \A pr \in Neighbours(s) :
                 Cardinality({k \in DOMAIN anomalies :
                                 /\ anomalies[k].symbol = s
                                 /\ anomalies[k].last_data_time = pr[1]
                                 /\ anomalies[k].next_data_time = pr[2]})
                   = IF pr[2] - pr[1] > threshold * SecondsPerMinute THEN 1 ELSE 0
            /\ \A k \in DOMAIN anomalies :
                 anomalies[k].symbol = s =>
                    <<anomalies[k].last_data_time, anomalies[k].next_data_time>>
                        \in Neighbours(s)
            /\ Cardinality(TimestampsOf(s)) <= 1 =>
                 ~ \E k \in DOMAIN anomalies : anomalies[k].symbol = s

\* C1 witness: an unsorted batch of one symbol holding a gap equal to the
\* threshold (not reported) and a larger gap (reported).
C1_Witness ==
    /\ det_pc = "done"
    /\ Len(anomalies) = 1
    /\ \E i, j \in DOMAIN data_points :
         /\ i < j
         /\ data_points[i].symbol = data_points[j].symbol
         /\ data_points[i].timestamp > data_points[j].timestamp
    /\ \E s \in Symbols : \E pr \in Neighbours(s) :
         pr[2] - pr[1] = threshold * SecondsPerMinute

\* C3: a missing_data anomaly is 'high' iff its gap is strictly more than
\* twice threshold_minutes and 'medium' otherwise (also at exactly twice).
C3_MissingSeverity ==
    det_pc = "done" =>
        \A k \in DOMAIN anomalies :
            LET gap == anomalies[k].next_data_time - anomalies[k].last_data_time
            IN /\ anomalies[k].severity \in {"high", "medium"}
               /\ anomalies[k].severity = "high"
                    <=> gap > 2 * threshold * SecondsPerMinute
               /\ anomalies[k].gap_seconds = gap

\* C3 witness: a 120-minute gap with threshold 30 reported 'high'.
C3_Witness ==
    /\ det_pc = "done"
    /\ threshold = DefaultThresholdMinutes
    /\ \E k \in DOMAIN anomalies :
         /\ anomalies[k].gap_seconds = 4 * DefaultThresholdMinutes * SecondsPerMinute
         /\ anomalies[k].severity = "high"

-----------------------------------------------------------------------------
(* Claims about PriceMovementDetector, checked under PriceSpec *)

\* |p[i] - p[i-1]| / p[i-1] * 100 > percent, in exact arithmetic
ExactChangeOver(previous, current, percent) ==
    (IF current.price >= previous.price
     THEN current.price - previous.price
     ELSE previous.price - current.price) * 100 > percent * previous.price

\* the frame the detector worked on holds the rows of s in timestamp order
FrameInTimeOrder(s) ==
    /\ symbol_data[s] \in SortedFrames(RowsOf(data_points, s))

\* C2: for every symbol with at least 2 points, a row is reported (once) iff
\* the absolute percent change of its price against the row before it in
\* timestamp order, (p[i]-p[i-1])/p[i-1]*100, is strictly more than
\* threshold_percent; a change equal to the threshold and the first row of a
\* symbol are not reported.
C2_PriceIffChangeOverThreshold ==
    det_pc = "done" =>
        /\ \A k \in DOMAIN anomalies : anomalies[k].anomaly_type = "price_movement"
        /\ \A s \in Symbols :
            /\ FrameInTimeOrder(s)
            /\ \A k \in DOMAIN anomalies :
                 anomalies[k].symbol = s => anomalies[k].row \in 2..Len(symbol_data[s])
            /\ \A i \in 1..Len(symbol_data[s]) :
                 Cardinality({k \in DOMAIN anomalies :
                                 anomalies[k].symbol = s /\ anomalies[k].row = i})
                   = IF i >= 2 /\ ExactChangeOver(symbol_data[s][i - 1],
                                                  symbol_data[s][i], threshold)
                     THEN 1 ELSE 0

\* C4: a price_movement anomaly is 'critical' iff the absolute percent change
\* is strictly more than twice threshold_percent and 'high' otherwise; it is
\* never 'low' or 'medium'.
C4_PriceSeverity ==
    det_pc = "done" =>
        \A k \in DOMAIN anomalies :
            LET frame == symbol_data[anomalies[k].symbol]
                i == anomalies[k].row
            IN /\ anomalies[k].severity \in {"high", "critical"}
               /\ anomalies[k].severity = "critical"
                    <=> ExactChangeOver(frame[i - 1], frame[i], 2 * threshold)


-----------------------------------------------------------------------------
(* BaseDataAdapter and the two configured adapters (base.py,                *)
(* gemfire_adapter.py, mssql_adapter.py).  What a backing store answers is  *)
(* the environment's choice; what the adapter does with the answer is the   *)
(* code's.                                                                  *)

Registered == {adapters[k] : k \in 1..Len(adapters)}

\* connect(): True and _connected = True when the store answers, else the
\* exception is caught, _connected = False and False is returned
ConnectSucceeds(a) == reachable[a]

\* BaseDataAdapter.initialize(): the result of connect(), False if it raised
AdapterInitialize(a) == ConnectSucceeds(a)

TestOutcomesMutant(a) == IF reachable[a] THEN {"true"} ELSE {"false", "raise"}

\* test_connection(): False without asking when _connected is false; else the
\* store is asked, and an unreachable store makes it return False or raise
TestOutcomes(a) ==
    IF ~connected[a] THEN {"false"}
    ELSE IF reachable[a] THEN {"true"}
    ELSE {"false", "raise"}

\* BaseDataAdapter.heartbeat(): the value it returns for an outcome of
\* test_connection(); an exception is caught and False is returned
HeartbeatResult(test) == test = "true"

\* BaseDataAdapter.heartbeat(): _last_heartbeat after it.  The time written is
\* kept as the outcome of the test_connection() that preceded the write.
HeartbeatStamp(old, test) ==
    IF test = "raise" THEN old
    ELSE IF test = "true" THEN "after_true" ELSE "after_false"

\* disconnect(): True and _connected = False, or the exception is caught (or
\* reaches BaseDataAdapter.shutdown, which catches it) and the flag is kept
DisconnectOutcomes == {"true", "false", "raise"}

ConnectedAfterDisconnect(old, outcome) == IF outcome = "true" THEN FALSE ELSE old

-----------------------------------------------------------------------------
(* DataSourceManager (manager.py): initialize() and shutdown().  One caller *)
(* makes the calls one after the other; each action is the code between two *)
(* awaits.                                                                  *)

\* the heartbeats in flight on the adapter object registered under a: once the
\* registry drops or replaces that object they act on an object nobody reads
Orphaned(tasks, dropped) ==
    [t \in TaskIds |->
        IF tasks[t].pc = "heartbeat" /\ tasks[t].name \in dropped
        THEN [tasks[t] EXCEPT !.stale = TRUE]
        ELSE tasks[t]]

InitializeCall ==
    /\ lifecycle.pc = "idle"
    /\ lifecycle.inits < MaxInits
    /\ lifecycle' = [lifecycle EXCEPT !.pc = "initialize", !.idx = 1, !.inits = @ + 1]
    /\ connect_failed' = {}
    /\ UNCHANGED <<adapters, connected, last_heartbeat, reachable, health_check_task,
                   health_tasks, query, to_disconnect, det_vars, ml_vars, ad_vars, eng_vars>>

\* self.adapters after `self.adapters[config.name] = adapter`
RegisterMutant(registry, a, success) ==
    IF a \in {registry[k] : k \in 1..Len(registry)} THEN registry ELSE Append(registry, a)

Register(registry, a, success) ==
    IF success /\ a \notin {registry[k] : k \in 1..Len(registry)}
    THEN Append(registry, a)
    ELSE registry

\* the configurations initialize() goes through: the two that
\* _load_data_source_configs builds, and between them one of a type that
\* _create_adapter has no adapter for
Configs == <<ConfigNames[1], "hbase_store", ConfigNames[2]>>

ConfigType ==
    [c \in {Configs[k] : k \in 1..Len(Configs)} |->
        IF c = ConfigNames[1] THEN "GEMFIRE"
        ELSE IF c = ConfigNames[2] THEN "MSSQL" ELSE "HBASE"]

\* _create_adapter: is an adapter object returned (None for HBASE, EOD and
\* unknown types)
CreateAdapter(c) == ConfigType[c] \in {"GEMFIRE", "MSSQL"}

\* one round of `for config in configs`: create the adapter, await its
\* initialize(), register it on success
InitializeAdapter ==
    /\ lifecycle.pc = "initialize"
    /\ lifecycle.idx <= Len(Configs)
    /\ LET a == Configs[lifecycle.idx]
           success == CreateAdapter(a) /\ AdapterInitialize(a)
       IN /\ adapters' = Register(adapters, a, success)
          /\ connected' = IF success THEN [connected EXCEPT ![a] = TRUE] ELSE connected
          /\ last_heartbeat' = IF success THEN [last_heartbeat EXCEPT ![a] = "None"]
                               ELSE last_heartbeat
          /\ health_tasks' = IF success THEN Orphaned(health_tasks, {a}) ELSE health_tasks
          /\ connect_failed' = IF success \/ ~CreateAdapter(a) THEN connect_failed
                                ELSE connect_failed \cup {a}
    /\ lifecycle' = [lifecycle EXCEPT !.idx = @ + 1]
    /\ UNCHANGED <<reachable, health_check_task, query, to_disconnect, det_vars, ml_vars, ad_vars, eng_vars>>

\* asyncio.create_task(self._health_check_loop()); return True
InitializeStartTask ==
    /\ lifecycle.pc = "initialize"
    /\ lifecycle.idx > Len(Configs)
    /\ health_tasks' = [health_tasks EXCEPT ![lifecycle.inits] = [NoTask EXCEPT !.pc = "sleep"]]
    /\ health_check_task' = lifecycle.inits
    /\ lifecycle' = [lifecycle EXCEPT !.pc = "idle", !.idx = 0, !.last = "initialize"]
    /\ UNCHANGED <<adapters, connected, last_heartbeat, reachable, query,
                   connect_failed, to_disconnect, det_vars, ml_vars, ad_vars, eng_vars>>

\* the tasks shutdown() cancels and awaits: the one in self._health_check_task
CancelledByShutdown(current) == IF current = 0 THEN {} ELSE {current}

\* shutdown() up to its first await: cancel the health-check task and await
\* it.  A cancelled task gets CancelledError at the await it is parked at and
\* ends; a task that never ran ends without running.
ShutdownCancel ==
    /\ lifecycle.pc = "idle"
    /\ health_tasks' = [t \in TaskIds |->
                          IF t \in CancelledByShutdown(health_check_task)
                          THEN [NoTask EXCEPT !.pc = "done"]
                          ELSE health_tasks[t]]
    /\ lifecycle' = [lifecycle EXCEPT !.pc = "shutdown", !.idx = 1]
    /\ to_disconnect' = Registered
    /\ connect_failed' = {}
    /\ UNCHANGED <<adapters, connected, last_heartbeat, reachable, health_check_task,
                   query, det_vars, ml_vars, ad_vars, eng_vars>>

\* one round of `for name, adapter in self.adapters.items()`: await
\* adapter.shutdown(), whatever it answers
ShutdownAdapter ==
    /\ lifecycle.pc = "shutdown"
    /\ lifecycle.idx <= Len(adapters)
    /\ LET a == adapters[lifecycle.idx]
       IN /\ \E outcome \in DisconnectOutcomes :
                connected' = [connected EXCEPT ![a] = ConnectedAfterDisconnect(@, outcome)]
          /\ to_disconnect' = to_disconnect \ {a}
    /\ lifecycle' = [lifecycle EXCEPT !.idx = @ + 1]
    /\ UNCHANGED <<adapters, last_heartbeat, reachable, health_check_task, health_tasks,
                   query, connect_failed, det_vars, ml_vars, ad_vars, eng_vars>>

\* self.adapters.clear(); return True
ShutdownClear ==
    /\ lifecycle.pc = "shutdown"
    /\ lifecycle.idx > Len(adapters)
    /\ adapters' = <<>>
    /\ connected' = [a \in Names |-> FALSE]
    /\ last_heartbeat' = [a \in Names |-> "None"]
    /\ health_tasks' = Orphaned(health_tasks, Registered)
    /\ lifecycle' = [lifecycle EXCEPT !.pc = "idle", !.idx = 0, !.last = "shutdown"]
    /\ UNCHANGED <<reachable, health_check_task, query, connect_failed, to_disconnect,
                   det_vars, ml_vars, ad_vars, eng_vars>>

\* is_healthy()
IsHealthyMutant == \A k \in 1..Len(adapters) : connected[adapters[k]]

is_healthy ==
    IF adapters = <<>> THEN FALSE
    ELSE \A k \in 1..Len(adapters) : connected[adapters[k]]

\* the environment: a backing store becomes unreachable, or reachable again
ReachabilityChanges ==
    /\ \E a \in Names : reachable' = [reachable EXCEPT ![a] = ~@]
    /\ UNCHANGED <<adapters, connected, last_heartbeat, health_check_task, health_tasks,
                   lifecycle, query, connect_failed, to_disconnect, det_vars, ml_vars, ad_vars, eng_vars>>

-----------------------------------------------------------------------------
(* DataSourceManager._health_check_loop: one asyncio task per initialize(). *)
(* A task is parked at `await adapter.heartbeat()` ("heartbeat") or at one   *)
(* of the two `await asyncio.sleep` ("sleep", "error_sleep"; a task that has *)
(* not run yet is "sleep" too: its next step starts a cycle).               *)

\* `healthy = await adapter.heartbeat()` on the adapter at position pos of the
\* dict iteration
IssueHeartbeat(task, pos) ==
    {[task EXCEPT !.pc = "heartbeat", !.pos = pos, !.name = adapters[pos],
                  !.test = o, !.stale = FALSE] : o \in TestOutcomes(adapters[pos])}

Parked(task, where) ==
    [task EXCEPT !.pc = where, !.pos = 0, !.size = 0, !.name = "", !.test = "",
                 !.stale = FALSE]

\* the top of `while True`: start iterating self.adapters.items()
HealthCycleStart(t) ==
    /\ health_tasks[t].pc \in {"sleep", "error_sleep"}
    /\ LET task == [health_tasks[t] EXCEPT !.size = Len(adapters), !.cycle = adapters,
                                           !.checked = {}]
       IN IF adapters = <<>>
          THEN health_tasks' = [health_tasks EXCEPT ![t] = Parked(task, "sleep")]
          ELSE \E r \in IssueHeartbeat(task, 1) :
                  health_tasks' = [health_tasks EXCEPT ![t] = r]
    /\ UNCHANGED <<adapters, connected, last_heartbeat, reachable, health_check_task,
                   lifecycle, query, connect_failed, to_disconnect, det_vars, ml_vars, ad_vars, eng_vars>>

\* what the loop does after a heartbeat returned, healthy or not: the dict
\* iterator raises RuntimeError when the dict changed size, else it yields the
\* next adapter or is exhausted
AfterHeartbeat(task, healthy) ==
    IF Len(adapters) # task.size THEN "error"
    ELSE IF task.pos < task.size THEN "next" ELSE "sleep"

\* a heartbeat returns; the next adapter of the cycle, or the sleep
HealthHeartbeatReturns(t) ==
    /\ health_tasks[t].pc = "heartbeat"
    /\ LET task == health_tasks[t]
           a == task.name
           after == [task EXCEPT !.checked = @ \cup {a}]
           todo == AfterHeartbeat(task, HeartbeatResult(task.test))
       IN /\ last_heartbeat' = IF task.stale THEN last_heartbeat
                               ELSE [last_heartbeat EXCEPT
                                        ![a] = HeartbeatStamp(@, task.test)]
          /\ CASE todo = "next" ->
                    \E r \in IssueHeartbeat(after, task.pos + 1) :
                        health_tasks' = [health_tasks EXCEPT ![t] = r]
               [] todo = "sleep" ->
                    health_tasks' = [health_tasks EXCEPT ![t] = Parked(after, "sleep")]
               [] todo = "error" ->
                    health_tasks' = [health_tasks EXCEPT ![t] = Parked(after, "error_sleep")]
    /\ UNCHANGED <<adapters, connected, reachable, health_check_task, lifecycle, query,
                   connect_failed, to_disconnect, det_vars, ml_vars, ad_vars, eng_vars>>

-----------------------------------------------------------------------------
(* DataSourceManager.get_latest_data / get_historical_data: the two have    *)
(* the same body but for the adapter method they call.                      *)

\* source_names arguments: None, one source, both in reverse order, a name
\* that is not registered, a repeated name
SourceNameChoices ==
    { <<>>,
      <<"gemfire_cache">>,
      <<"mssql_historical", "gemfire_cache">>,
      <<"hbase_store", "mssql_historical">>,
      <<"gemfire_cache", "gemfire_cache">> }

QueryKinds == {"latest", "historical"}

\* the keys of a dict filled in the order of seq
RECURSIVE DictKeys(_)
DictKeys(seq) ==
    IF seq = <<>> THEN <<>>
    ELSE LET front == DictKeys(SubSeq(seq, 1, Len(seq) - 1))
             x == seq[Len(seq)]
         IN IF x \in {front[k] : k \in 1..Len(front)} THEN front ELSE Append(front, x)

\* adapters_to_query
AdaptersToQuery(source_names) ==
    IF source_names = <<>> THEN adapters
    ELSE SelectSeq(DictKeys(source_names), LAMBDA n : n \in Registered)

QueryTasksMutant(source_names) == AdaptersToQuery(source_names)

\* tasks: one coroutine per target adapter that is connected
QueryTasks(source_names) ==
    SelectSeq(AdaptersToQuery(source_names), LAMBDA n : connected[n])

\* the data points an adapter returns: k of them, told apart by source and rank
Rows(a, k) == [i \in 1..k |-> [source |-> a, rank |-> i]]

\* `data = await task`: the adapter's answer, or its exception
FetchOutcomes(a) ==
    {[raised |-> TRUE, data |-> <<>>]} \cup
    {[raised |-> FALSE, data |-> Rows(a, k)] : k \in 0..MaxRows}

\* all_data after one `try: data = await task; all_data.extend(data)
\* except Exception: log`
CollectMutant(all_data, outcome) ==
    IF outcome.raised THEN <<>> ELSE all_data \o outcome.data

Collect(all_data, outcome) ==
    IF outcome.raised THEN all_data ELSE all_data \o outcome.data

\* the adapter queries that have begun to run when the call reaches its
\* first await: `task = adapter.get_latest_data(symbols)` calls an async def,
\* which makes a coroutine object and runs none of its body
StartedByCall(tasks) == <<>>

\* the adapter queries that have begun to run after `data = await task` of
\* round idx: the awaited coroutine ran, from its start to its end
StartedByAwait(started, tasks, idx) == Append(started, tasks[idx])

\* the call up to its first await: choose the targets, create the coroutines
QueryCall ==
    /\ query.pc \in {"idle", "done"}
    /\ \E kind \in QueryKinds, source_names \in SourceNameChoices :
          query' = [pc |-> "await", kind |-> kind, tasks |-> QueryTasks(source_names),
                    idx |-> 1, outcomes |-> <<>>, all_data |-> <<>>,
                    started |-> StartedByCall(QueryTasks(source_names))]
    /\ UNCHANGED <<adapters, connected, last_heartbeat, reachable, health_check_task,
                   health_tasks, lifecycle, connect_failed, to_disconnect, det_vars, ml_vars, ad_vars, eng_vars>>

\* one round of `for name, task in tasks`
QueryAwait ==
    /\ query.pc = "await"
    /\ query.idx <= Len(query.tasks)
    /\ \E outcome \in FetchOutcomes(query.tasks[query.idx]) :
          query' = [query EXCEPT !.outcomes = Append(@, outcome),
                                 !.all_data = Collect(@, outcome),
                                 !.started = StartedByAwait(@, query.tasks, query.idx),
                                 !.idx = @ + 1]
    /\ UNCHANGED <<adapters, connected, last_heartbeat, reachable, health_check_task,
                   health_tasks, lifecycle, connect_failed, to_disconnect, det_vars, ml_vars, ad_vars, eng_vars>>

\* return all_data
QueryReturn ==
    /\ query.pc = "await"
    /\ query.idx > Len(query.tasks)
    /\ query' = [query EXCEPT !.pc = "done"]
    /\ UNCHANGED <<adapters, connected, last_heartbeat, reachable, health_check_task,
                   health_tasks, lifecycle, connect_failed, to_disconnect, det_vars, ml_vars, ad_vars, eng_vars>>

LifecycleNext ==
    \/ InitializeCall
    \/ InitializeAdapter
    \/ InitializeStartTask
    \/ ShutdownCancel
    \/ ShutdownAdapter
    \/ ShutdownClear

HealthNext == \E t \in TaskIds : HealthCycleStart(t) \/ HealthHeartbeatReturns(t)

ManagerInit ==
    /\ DetectorsIdle
    /\ MLUnused
    /\ ManagerConstructed
    /\ reachable \in [Names -> BOOLEAN]

ManagerNext == LifecycleNext \/ HealthNext \/ ReachabilityChanges

ManagerSpec == ManagerInit /\ [][ManagerNext]_vars

\* The fan-out queries next to initialize() and shutdown().  The health-check
\* tasks write health_tasks and last_heartbeat only, which no query reads, so
\* their steps are left to ManagerSpec.
QueryNext == QueryCall \/ QueryAwait \/ QueryReturn

FanoutNext == LifecycleNext \/ QueryNext \/ ReachabilityChanges

FanoutSpec == ManagerInit /\ [][FanoutNext]_vars


-----------------------------------------------------------------------------
(* Claims about the fan-out queries, checked under FanoutSpec *)

Occurrences(seq, x) == Cardinality({i \in 1..Len(seq) : seq[i] = x})

\* how often x occurs in the answers of the adapters that did not raise
RECURSIVE ReturnedOccurrences(_, _)
ReturnedOccurrences(outcomes, x) ==
    IF outcomes = <<>> THEN 0
    ELSE LET last == outcomes[Len(outcomes)]
         IN ReturnedOccurrences(SubSeq(outcomes, 1, Len(outcomes) - 1), x)
            + (IF last.raised THEN 0 ELSE Occurrences(last.data, x))

AllRows == {[source |-> a, rank |-> i] : a \in Names, i \in 1..MaxRows}

\* C5: when target adapters raise during get_latest_data / get_historical_data,
\* the call still returns, every connected target was awaited, and the list it
\* returns is, as a multiset, exactly the union of the answers of the adapters
\* that did not raise: a raising adapter adds nothing and removes nothing,
\* wherever it stands among the targets.
C5_FanoutMergesTheOthers ==
    query.pc = "done" =>
        /\ Len(query.outcomes) = Len(query.tasks)
        /\ \A i \in 1..Len(query.all_data) : query.all_data[i] \in AllRows
        /\ \A x \in AllRows :
              Occurrences(query.all_data, x) = ReturnedOccurrences(query.outcomes, x)

\* a call returned after its first target raised and its second answered
C5_Witness ==
    /\ query.pc = "done"
    /\ Len(query.tasks) = 2
    /\ query.outcomes[1].raised
    /\ ~query.outcomes[2].raised
    /\ query.outcomes[2].data # <<>>
    /\ query.all_data = query.outcomes[2].data

-----------------------------------------------------------------------------
(* Claims about the registry and its health-check loop, checked under       *)
(* ManagerSpec                                                              *)

\* a step of a health-check task (initialize() and shutdown() always move
\* `lifecycle`)
HealthStep == health_tasks' # health_tasks /\ lifecycle' = lifecycle

InitializeReturned == lifecycle.pc = "idle" /\ lifecycle.last = "initialize"
ShutdownReturned == lifecycle.pc = "idle" /\ lifecycle.last = "shutdown"

\* C6, as claimed: connectivity failures are recovered by the health-check
\* cycle; an adapter whose connect failed during initialize() remains managed
\* by the registry (and is reconnected by a later cycle once its store is
\* reachable).  Stated for what a finite run shows: when initialize() has
\* returned, every adapter whose connect failed is in the registry.
C6_FailedAdapterStaysManaged ==
    InitializeReturned => connect_failed \subseteq Registered

\* C6, amended: connectivity failures are not recovered by the health-check
\* cycle.  A connect that fails during initialize() registers nothing, a step
\* of the health-check loop changes neither the registry nor any connected
\* flag, and a connected flag turns true only in a step of initialize().
C6_NoRecoveryWithoutInitialize ==
    [][ /\ \A a \in Names :
              a \in connect_failed' \ connect_failed => adapters' = adapters
        /\ HealthStep => adapters' = adapters /\ connected' = connected
        /\ \A a \in Names :
              ~connected[a] /\ connected'[a] => lifecycle.pc = "initialize"
      ]_vars

\* initialize() returned without an adapter whose store is reachable again; a
\* health-check cycle has checked the others since, and it is still unmanaged
C6_Witness ==
    /\ InitializeReturned
    /\ \E a \in connect_failed :
          /\ reachable[a]
          /\ a \notin Registered
          /\ ~connected[a]
    /\ \E t \in TaskIds :
          health_tasks[t].pc = "sleep" /\ health_tasks[t].checked # {}

\* C7: is_healthy() is true iff the adapter mapping is non-empty and every
\* registered adapter is connected; it is false before initialize(), after
\* shutdown() and whenever a registered adapter is disconnected.
C7_IsHealthy ==
    /\ is_healthy <=> (Len(adapters) > 0 /\ \A a \in Registered : connected[a])
    /\ lifecycle.inits = 0 => ~is_healthy
    /\ ShutdownReturned => ~is_healthy
    /\ (\E a \in Registered : ~connected[a]) => ~is_healthy

\* a registered adapter is disconnected while another is still connected
C7_Witness ==
    /\ \E a \in Registered : ~connected[a]
    /\ \E a \in Registered : connected[a]
    /\ ~is_healthy

\* C8: whatever the heartbeats answer, the health-check loop leaves the adapter
\* mapping unchanged, checks every adapter of the cycle it is in before it
\* sleeps, and goes on to the next cycle (it ends only when cancelled).
C8_HealthLoopKeepsGoing ==
    [][ /\ HealthStep => adapters' = adapters
        /\ \A t \in TaskIds :
              /\ HealthStep /\ health_tasks'[t].pc \in {"sleep", "error_sleep"} =>
                    health_tasks'[t].checked =
                        {health_tasks'[t].cycle[k] : k \in 1..Len(health_tasks'[t].cycle)}
              /\ HealthStep /\ health_tasks'[t].pc = "done" => health_tasks[t].pc = "done"
      ]_vars

\* C9: after shutdown() returned, every health-check loop has terminated,
\* disconnect was invoked on every adapter that was registered, the adapter
\* mapping is empty and is_healthy() is false.
C9_ShutdownStopsEverything ==
    ShutdownReturned =>
        /\ \A t \in TaskIds : health_tasks[t].pc \in {"none", "done"}
        /\ to_disconnect = {}
        /\ adapters = <<>>
        /\ ~is_healthy


-----------------------------------------------------------------------------
(* AnomalyMLModel (anomaly_ml_model.py): train, predict_anomalies,          *)
(* save_model, load_model on one object and one model file.  What sklearn   *)
(* computes is kept as which training set an estimator was fitted on.       *)

Contaminations == {"valid", "invalid"}   \* inside (0, 0.5], or a value fit() rejects

\* training_data: [], rows prepare_features cannot digest, rows whose features
\* the scaler rejects (an infinite change), or well-formed training set d
TrainInputs ==
    {[kind |-> k, id |-> 0] : k \in {"empty", "malformed", "infinite"}} \cup
    {[kind |-> "good", id |-> d] : d \in 1..MaxDatasets}

PredictInputs == {"empty", "malformed", "good"}

\* why train() gives up on an input, "none" if it does not
TrainFailure(self, input) ==
    CASE input.kind = "empty" -> "empty"
      [] input.kind = "malformed" -> "prepare_features"
      [] input.kind = "infinite" -> "fit_transform"
      [] OTHER -> IF self.contamination = "invalid" THEN "model.fit" ELSE "none"

\* self.scaler after train(): fit_transform refits it, and when it raises on
\* the data it has either kept or dropped what it had learnt
ScalersAfterTrain(self, input) ==
    CASE input.kind \in {"empty", "malformed"} -> {self.scaler}
      [] input.kind = "infinite" -> {self.scaler, 0}
      [] OTHER -> {input.id}

\* self.model after train(): fitted only when fit() accepts its parameters
ModelAfterTrain(self, input) ==
    IF TrainFailure(self, input) = "none" THEN input.id ELSE self.model

\* self.is_trained after train()
IsTrainedAfterTrainMutant(old, failure) ==
    IF failure \in {"none", "model.fit"} THEN TRUE ELSE old

IsTrainedAfterTrain(old, failure) == IF failure = "none" THEN TRUE ELSE old

Train ==
    /\ \E input \in TrainInputs :
          LET failure == TrainFailure(ml_self, input)
          IN /\ \E s \in ScalersAfterTrain(ml_self, input) :
                   ml_self' = [ml_self EXCEPT
                                  !.scaler = s,
                                  !.model = ModelAfterTrain(ml_self, input),
                                  !.is_trained = IsTrainedAfterTrain(@, failure)]
             /\ ml_last' = [op |-> "train", input |-> input.kind, failure |-> failure,
                            result |-> IF failure = "none" THEN "True" ELSE "False"]
             /\ ml_trained_once' = (ml_trained_once \/ failure = "none")
    /\ UNCHANGED <<ml_file, ml_saved, det_vars, mgr_vars, ad_vars, eng_vars>>

\* what predict_anomalies returns: [] at once when not trained; [] when there
\* are no features or anything raises (an estimator that is not fitted
\* raises); else whatever the forest flags
PredictResults(self, input) ==
    IF ~self.is_trained THEN {"[]"}
    ELSE IF input # "good" \/ self.scaler = 0 \/ self.model = 0 THEN {"[]"}
    ELSE {"[]", "anomalies"}

PredictAnomalies ==
    /\ \E input \in PredictInputs : \E r \in PredictResults(ml_self, input) :
          ml_last' = [op |-> "predict", input |-> input, failure |-> "none", result |-> r]
    /\ UNCHANGED <<ml_self, ml_file, ml_trained_once, ml_saved, det_vars, mgr_vars, ad_vars, eng_vars>>

\* model_data: the dict save_model builds from the object's fields
ModelData(self) ==
    [model |-> self.model, scaler |-> self.scaler, is_trained |-> self.is_trained,
     feature_columns |-> self.feature_columns, contamination |-> self.contamination]

\* the object after load_model assigned its fields from the dict
LoadedMutant(self, model_data) ==
    [contamination |-> self.contamination, model |-> model_data.model,
     scaler |-> model_data.scaler, is_trained |-> model_data.is_trained,
     feature_columns |-> model_data.feature_columns]

Loaded(self, model_data) ==
    [contamination |-> model_data.contamination, model |-> model_data.model,
     scaler |-> model_data.scaler, is_trained |-> model_data.is_trained,
     feature_columns |-> model_data.feature_columns]

\* is the object as __init__ left it, but for its contamination
Fresh(self) == self = NewModel(self.contamination)

\* joblib.dump writes the dict, or fails and save_model returns False
SaveModel ==
    /\ \E written \in BOOLEAN :
          /\ ml_file' = IF written THEN <<ModelData(ml_self)>> ELSE ml_file
          /\ ml_saved' = IF written THEN <<ml_self>> ELSE ml_saved
          /\ ml_last' = [op |-> "save", input |-> "", failure |-> "none",
                         result |-> IF written THEN "True" ELSE "False"]
    /\ UNCHANGED <<ml_self, ml_trained_once, det_vars, mgr_vars, ad_vars, eng_vars>>

\* joblib.load raises on a missing file; else every field is taken from it
LoadModel ==
    /\ ml_self' = IF ml_file = <<>> THEN ml_self ELSE Loaded(ml_self, ml_file[1])
    /\ ml_last' = [op |-> "load", input |-> IF Fresh(ml_self) THEN "fresh" ELSE "used",
                   failure |-> "none",
                   result |-> IF ml_file = <<>> THEN "False" ELSE "True"]
    /\ ml_trained_once' = (ml_trained_once \/ (ml_file # <<>> /\ ml_file[1].is_trained))
    /\ UNCHANGED <<ml_file, ml_saved, det_vars, mgr_vars, ad_vars, eng_vars>>

\* AnomalyMLModel(contamination): another object takes the place of the one
\* under study; the file stays
Construct ==
    /\ \E c \in Contaminations : ml_self' = NewModel(c)
    /\ ml_last' = [op |-> "construct", input |-> "", failure |-> "none", result |-> ""]
    /\ ml_trained_once' = FALSE
    /\ UNCHANGED <<ml_file, ml_saved, det_vars, mgr_vars, ad_vars, eng_vars>>

MLInit ==
    /\ DetectorsIdle
    /\ ManagerUnused
    /\ \E c \in Contaminations : MLConstructed(c)

MLNext == Train \/ PredictAnomalies \/ SaveModel \/ LoadModel \/ Construct

MLSpec == MLInit /\ [][MLNext]_vars

-----------------------------------------------------------------------------
(* Claims about AnomalyMLModel, checked under MLSpec *)

\* C10: while no train() has succeeded and no trained model has been loaded,
\* is_trained is false and every predict_anomalies call returns [] whatever
\* its input; a train() that fails, on an empty data set or on an exception,
\* returns False and leaves is_trained as it was.
C10_UntrainedPredictsNothing ==
    [][ /\ ~ml_trained_once' => ~ml_self'.is_trained
        /\ ml_last'.op = "predict" /\ ~ml_trained_once' =>
              ml_last'.result = "[]" /\ ml_self' = ml_self
        /\ ml_last'.op = "train" /\ ml_last' # ml_last /\ ml_last'.failure # "none" =>
              ml_last'.result = "False" /\ ml_self'.is_trained = ml_self.is_trained
      ]_vars

\* predict on well-formed input after a train() that fitted the scaler and
\* then failed in model.fit
C10_Witness ==
    /\ ~ml_trained_once
    /\ ml_self.scaler > 0
    /\ ml_self.model = 0
    /\ ml_last.op = "predict"
    /\ ml_last.input = "good"
    /\ ml_last.result = "[]"


\* the estimators and the flag that go together
FittedState(self) == <<self.scaler, self.model, self.is_trained>>

\* C11: scaler and model are updated as a unit.  After any train() or
\* load_model(), failed or not, the scaler, the model and is_trained are
\* either all as before or all new: both estimators fitted on the training
\* set with is_trained true after train(), all three as stored in the file
\* after load_model().
C11_ScalerAndModelAsUnit ==
    [][ /\ ml_last'.op = "train" =>
              \/ FittedState(ml_self') = FittedState(ml_self)
              \/ /\ ml_last'.result = "True"
                 /\ ml_self'.scaler = ml_self'.model
                 /\ ml_self'.scaler > 0
                 /\ ml_self'.is_trained
        /\ ml_last'.op = "load" =>
              \/ FittedState(ml_self') = FittedState(ml_self)
              \/ ml_file # <<>> /\ FittedState(ml_self') = FittedState(ml_file[1])
      ]_vars


-----------------------------------------------------------------------------
(* TimeSeriesAnomalyModel (anomaly_ml_model.py): the rolling z-score        *)
(* detector.  Rows are numbered from 1 here; the code's idx is the row      *)
(* number minus one.  The float comparison |z| > k is decided on the exact  *)
(* value of z, which for the integer samples used here is never within      *)
(* rounding distance of k unless it equals k; an exact tie may go either    *)
(* way.                                                                     *)

MaxExtra == 2               \* a series has up to window_size + MaxExtra points

DefaultWindowSize == 20     \* TimeSeriesAnomalyModel.__init__
TestWindowSize == 10        \* the window the test suite configures
ZThreshold == 3             \* anomaly_threshold
CriticalZ == 4              \* severity cut-off
BasePrice == 100
BaseVolume == 10
           \* a field the point does not have (NaN in the frame)

\* the test's window, the smallest window that can flag at all, the default
WindowSizes == {TestWindowSize, TestWindowSize + 1, DefaultWindowSize}

RECURSIVE SeqSum(_)
SeqSum(s) == IF s = <<>> THEN 0 ELSE SeqSum(Tail(s)) + Head(s)

ColumnValue(p, column) == IF column = "price" THEN p.price ELSE p.volume

\* the rows data[column].rolling(window=w) puts in the window that ends at row i
Window(data, column, i, w) == [k \in 1..w |-> ColumnValue(data[i - w + k], column)]

\* |z| > k for the last value x of a window of n values, where
\*   z = (x - mean) / std, std the sample standard deviation (ddof = 1):
\*   z^2 = (n x - S)^2 (n - 1) / (n (n Q - S^2)),  S the sum, Q the sum of squares.
\* A NaN in the window, or std = 0 (then x = mean and z = 0/0), gives NaN,
\* and NaN > k is false.
ZScoreOver(win, k, tie) ==
    LET n == Len(win)
        x == win[n]
        S == SeqSum(win)
        Q == SeqSum([j \in 1..n |-> win[j] * win[j]])
        lhs == (n * x - S) * (n * x - S) * (n - 1)
        rhs == k * k * n * (n * Q - S * S)
    IN IF \E j \in 1..n : win[j] = NoValue THEN FALSE
       ELSE IF n * Q - S * S = 0 THEN FALSE
       ELSE IF lhs = rhs THEN tie
       ELSE lhs > rhs

\* np.where(np.abs(z_scores) > anomaly_threshold): rows before the first full
\* window have a NaN z-score
NpWhere(data, column, w, tie) ==
    {i \in 1..Len(data) : i >= w /\ ZScoreOver(Window(data, column, i, w), ZThreshold, tie)}

\* `if idx >= self.window_size`
HasHistoryMutant(i, w) == i - 1 >= w - 1

HasHistory(i, w) == i - 1 >= w

\* 'critical' if abs(z_score) > 4 else 'high'
ZSeverityMutant(win, tie) == IF ZScoreOver(win, ZThreshold, tie) THEN "high" ELSE "critical"

ZSeverity(win, tie) == IF ZScoreOver(win, CriticalZ, tie) THEN "critical" ELSE "high"

\* _detect_zscore_anomalies
DetectZScoreAnomalies(data, column, symbol, anomaly_type, w, tie) ==
    LET hits == NpWhere(data, column, w, tie)
        rows == SelectSeq([i \in 1..Len(data) |-> i],
                          LAMBDA i : i \in hits /\ HasHistory(i, w))
    IN [k \in 1..Len(rows) |->
          [symbol |-> symbol,
           anomaly_type |-> anomaly_type,
           severity |-> ZSeverity(Window(data, column, rows[k], w), tie),
           data_timestamp |-> data[rows[k]].timestamp,
           value |-> ColumnValue(data[rows[k]], column),
           row |-> rows[k]]]

\* 'volume' in symbol_data.columns: some point of the batch has the field
HasColumn(batch, column) ==
    \E i \in 1..Len(batch) : ColumnValue(batch[i], column) # NoValue

\* one round of `for symbol in df['symbol'].unique()`
ZScoreForSymbol(frame, s, w, with_volume, tie) ==
    IF Len(frame) < w THEN <<>>
    ELSE DetectZScoreAnomalies(frame, "price", s, "price_zscore", w, tie)
         \o (IF with_volume
             THEN DetectZScoreAnomalies(frame, "volume", s, "volume_zscore", w, tie)
             ELSE <<>>)

\* sort_values('timestamp') of rows with distinct timestamps: each row goes to
\* its rank; with equal timestamps, any arrangement in time order
TimeSorted(frame) ==
    IF \A i, j \in 1..Len(frame) : frame[i].timestamp = frame[j].timestamp => i = j
    THEN {[r \in 1..Len(frame) |->
             frame[CHOOSE i \in 1..Len(frame) :
                     Cardinality({j \in 1..Len(frame) :
                                     frame[j].timestamp < frame[i].timestamp}) = r - 1]]}
    ELSE SortedFrames(frame)

RECURSIVE TimeSortedLists(_, _)
TimeSortedLists(batch, k) ==
    IF k = 0 THEN {<<>>}
    ELSE {Append(front, g) : front \in TimeSortedLists(batch, k - 1),
                             g \in TimeSorted(RowsOf(batch, SymbolList[k]))}

TimeSortedChoices(batch) ==
    {[s \in Symbols |-> fl[CHOOSE k \in 1..Len(SymbolList) : SymbolList[k] = s]] :
        fl \in TimeSortedLists(batch, Len(SymbolList))}

\* does the call leave by an exception: df['symbol'] on a frame without
\* columns (an empty batch), data['price'] when no point has a price and a
\* symbol has a full window
ZScoreRaises(batch, w) ==
    \/ batch = <<>>
    \/ /\ ~HasColumn(batch, "price")
       /\ \E s \in Symbols : RowsOf(batch, s) # <<>> /\ Len(RowsOf(batch, s)) >= w

\* detect_time_series_anomalies
TimeSeriesDetect ==
    /\ det_pc = "ready"
    /\ window_size > 0
    /\ IF ZScoreRaises(data_points, window_size)
       THEN /\ det_pc' = "raised"
            /\ UNCHANGED <<symbol_data, anomalies>>
       ELSE /\ \E sd \in TimeSortedChoices(data_points), tie \in BOOLEAN :
                 LET U == Unique(data_points)
                 IN /\ symbol_data' = sd
                    /\ anomalies' = Flatten([k \in 1..Len(U) |->
                                               ZScoreForSymbol(sd[U[k]], U[k], window_size,
                                                   HasColumn(data_points, "volume"), tie)])
            /\ det_pc' = "done"
    /\ called' = "TimeSeriesAnomalyModel.detect_time_series_anomalies"
    /\ UNCHANGED <<data_points, threshold, window_size, mgr_vars, ml_vars, ad_vars, eng_vars>>

\* The series given to the detector: `len` points a minute apart, flat or
\* alternating between two neighbouring values, with at most one deviating
\* point; the volume is absent, flat, or deviates where the price does.
SeriesShapes(w) ==
    {sh \in [len : {0} \cup (w - 1)..(w + MaxExtra),
             base : {"flat", "wavy"},
             spike_at : 0..(w + MaxExtra),
             spike : {BasePrice * 2, BasePrice + 3},
             volume : {"absent", "flat", "spiked"}] :
        /\ sh.spike_at <= sh.len
        /\ sh.spike_at = 0 => sh.spike = BasePrice * 2}

SeriesOf(s, sh) ==
    [i \in 1..sh.len |->
        [symbol |-> s,
         timestamp |-> i * SecondsPerMinute,
         price |-> IF i = sh.spike_at THEN sh.spike
                   ELSE IF sh.base = "wavy" THEN BasePrice + (i % 2) ELSE BasePrice,
         volume |-> IF sh.volume = "absent" THEN NoValue
                    ELSE IF sh.volume = "spiked" /\ i = sh.spike_at THEN BaseVolume * 5
                    ELSE BaseVolume]]

Reversed(seq) == [i \in 1..Len(seq) |-> seq[Len(seq) + 1 - i]]

\* a second symbol with too short a history, deviating at its last point
ShortSeries(w, volume) ==
    SeriesOf(SymbolList[2], [len |-> w - 1, base |-> "flat", spike_at |-> w - 1,
                             spike |-> BasePrice * 2, volume |-> volume])

TimeSeriesBatches(w) ==
    UNION {LET main == SeriesOf(SymbolList[1], sh)
               both == ShortSeries(w, sh.volume) \o main
           IN {main, Reversed(main), both, Reversed(both)} : sh \in SeriesShapes(w)}

TimeSeriesInit ==
    /\ window_size \in WindowSizes
    /\ data_points \in TimeSeriesBatches(window_size)
    /\ threshold = 0
    /\ symbol_data = [s \in Symbols |-> <<>>]
    /\ anomalies = <<>>
    /\ det_pc = "ready"
    /\ called = "none"
    /\ ManagerUnused
    /\ MLUnused

TimeSeriesNext == TimeSeriesDetect

TimeSeriesSpec == TimeSeriesInit /\ [][TimeSeriesNext]_vars


-----------------------------------------------------------------------------
(* The detectors on batches with defects: an empty batch, points without    *)
(* price or volume, timestamps that do not parse.                           *)

MaxDefectPoints == 4     \* longest batch with defects

DefectTimes == {0, 2 * TickSeconds, BadTime}

DefectPoints ==
    [symbol : Symbols, timestamp : DefectTimes,
     price : {DefaultPrice, NoValue}, volume : {BaseVolume, NoValue}]

\* batches of up to n points in which every point has a price or none has
DefectBatches(n) ==
    {b \in Batches(DefectPoints, n) :
        \A i, j \in 1..Len(b) : (b[i].price = NoValue) <=> (b[j].price = NoValue)}

DefectInit ==
    /\ data_points \in DefectBatches(MaxDefectPoints)
    /\ threshold = DefaultThresholdMinutes
    /\ window_size = MaxDefectPoints - 1
    /\ symbol_data = [s \in Symbols |-> <<>>]
    /\ anomalies = <<>>
    /\ det_pc = "ready"
    /\ called = "none"
    /\ ManagerUnused
    /\ MLUnused

DefectNext == MissingDetect \/ PriceDetect \/ TimeSeriesDetect

DefectSpec == DefectInit /\ [][DefectNext]_vars

-----------------------------------------------------------------------------
(* Claims about TimeSeriesAnomalyModel, checked under TimeSeriesSpec *)

ReportedZScores == {anomalies[k] : k \in 1..Len(anomalies)}

\* the points of a symbol that are earlier than a given time
PriorPoints(s, time) ==
    {i \in 1..Len(data_points) :
        data_points[i].symbol = s /\ data_points[i].timestamp < time}

PointsOf(s) == {i \in 1..Len(data_points) : data_points[i].symbol = s}

\* C12: the z-score detector never reports a point that has fewer than
\* window_size earlier points of its symbol, and a symbol with fewer than
\* window_size points yields no anomaly at all.
C12_NoAnomalyBeforeWindow ==
    (det_pc = "done" /\ window_size > 0) =>
        \A a \in ReportedZScores :
            /\ Cardinality(PriorPoints(a.symbol, a.data_timestamp)) >= window_size
            /\ Cardinality(PointsOf(a.symbol)) >= window_size

\* a point whose z-score is over the threshold in the first full window is
\* not reported, a later one of the same batch's kind is, and a symbol with a
\* short history has a deviating point
C12_Witness ==
    /\ det_pc = "done"
    /\ window_size > TestWindowSize
    /\ \E s \in Symbols :
          /\ Len(symbol_data[s]) > window_size
          /\ window_size \in NpWhere(symbol_data[s], "price", window_size, TRUE)
          /\ ~\E a \in ReportedZScores : a.symbol = s /\ a.row = window_size
    /\ \E s \in Symbols :
          /\ Len(symbol_data[s]) = window_size - 1
          /\ \E i \in PointsOf(s) : data_points[i].price = BasePrice * 2

\* C13: with window_size = 10, as the test configures it, and in general for
\* the configured window, a point that has at least window_size earlier
\* points of its symbol and whose price is twice theirs is reported as a
\* price anomaly, so the call returns a non-empty list.
C13_ExtremePointReported ==
    (det_pc = "done" /\ window_size > 0) =>
        \A i \in 1..Len(data_points) :
            LET p == data_points[i]
            IN (/\ p.price = BasePrice * 2
                /\ Cardinality(PriorPoints(p.symbol, p.timestamp)) >= window_size)
               => \E a \in ReportedZScores :
                     /\ a.symbol = p.symbol
                     /\ a.anomaly_type = "price_zscore"
                     /\ a.data_timestamp = p.timestamp

\* the +10 sigma scenario on a column: one symbol, the same value at every
\* point but the last in time, at least window_size of them
FlatThenSpike(column) ==
    /\ data_points # <<>>
    /\ \A i \in 1..Len(data_points) : data_points[i].symbol = data_points[1].symbol
    /\ Len(data_points) > window_size
    /\ \E last \in 1..Len(data_points) :
          /\ \A i \in 1..Len(data_points) :
                data_points[i].timestamp <= data_points[last].timestamp
          /\ \A i, j \in 1..Len(data_points) \ {last} :
                /\ ColumnValue(data_points[i], column) = ColumnValue(data_points[j], column)
                /\ ColumnValue(data_points[i], column) # NoValue
          /\ \E i \in 1..Len(data_points) :
                ColumnValue(data_points[i], column) \notin
                    {ColumnValue(data_points[last], column), NoValue}

LastTimestamp ==
    CHOOSE time \in {data_points[i].timestamp : i \in 1..Len(data_points)} :
        \A i \in 1..Len(data_points) : data_points[i].timestamp <= time

\* C14: with the default window of 20, on a single symbol whose series is one
\* constant value for at least window_size points followed by one deviating
\* point, the detector reports exactly that point for each column of that
\* shape and no constant point; the severity is 'critical' if |z| > 4 and
\* 'high' otherwise, where z = (window_size - 1) / sqrt(window_size) here.
C14_FlatSeriesThenSpike ==
    (det_pc = "done" /\ window_size = DefaultWindowSize) =>
        \A column \in {"price", "volume"} :
            FlatThenSpike(column) =>
                LET found == {k \in 1..Len(anomalies) :
                                 anomalies[k].anomaly_type = column \o "_zscore"}
                IN /\ Cardinality(found) = 1
                   /\ \A k \in found :
                         /\ anomalies[k].data_timestamp = LastTimestamp
                         /\ anomalies[k].severity =
                               IF (window_size - 1) * (window_size - 1)
                                      > CriticalZ * CriticalZ * window_size
                               THEN "critical" ELSE "high"

\* the scenario on both columns, longer than the window needs
C14_Witness ==
    /\ det_pc = "done"
    /\ window_size = DefaultWindowSize
    /\ FlatThenSpike("price")
    /\ FlatThenSpike("volume")
    /\ Len(data_points) > window_size + 1
    /\ Len(anomalies) = 2


-----------------------------------------------------------------------------
(* Claims about the detectors' failure policy, checked under DefectSpec *)

\* C15: no detector raises past its public call, whatever the batch: empty,
\* with points lacking price or volume, or with a timestamp that does not
\* parse.
C15_NoDetectorRaises == det_pc # "raised"

\* the symbols whose own rows make the call that was made raise
FailingSymbols ==
    {s \in Symbols :
        LET frame == RowsOf(data_points, s)
        IN CASE called = "MissingDataDetector.detect" -> MissingRaisesFor(frame)
             [] called = "PriceMovementDetector.detect" ->
                    PriceRaisesFor(data_points, frame)
             [] called = "TimeSeriesAnomalyModel.detect_time_series_anomalies" ->
                    frame # <<>> /\ ZScoreRaises(frame, window_size)
             [] OTHER -> FALSE}

\* what the call that was made returns on a batch it does not fail on
ResultsOn(batch) ==
    LET U == Unique(batch)
    IN CASE called = "MissingDataDetector.detect" ->
              {Flatten([k \in 1..Len(U) |-> MissingForSymbol(sd[U[k]], U[k], threshold)]) :
                  sd \in FrameChoices(batch)}
         [] called = "PriceMovementDetector.detect" ->
              {Flatten([k \in 1..Len(U) |-> PriceForSymbol(sd[U[k]], U[k], threshold)]) :
                  sd \in FrameChoices(batch)}
         [] OTHER ->
              {Flatten([k \in 1..Len(U) |->
                           ZScoreForSymbol(sd[U[k]], U[k], window_size,
                                           HasColumn(batch, "volume"), TRUE)]) :
                  sd \in TimeSortedChoices(batch)}

\* C16: an error on one symbol's rows is isolated: the call returns, and what
\* it returns is what it returns on the batch without the failing symbols.
C16_FailureIsolatedPerSymbol ==
    (det_pc \in {"done", "raised"} /\ FailingSymbols # {}) =>
        /\ det_pc = "done"
        /\ anomalies \in ResultsOn(SelectSeq(data_points,
                                             LAMBDA p : p.symbol \notin FailingSymbols))


-----------------------------------------------------------------------------
(* One adapter used directly (gemfire_adapter.py, mssql_adapter.py, base.py) *)
(* The adapter under study is adapter_call.adapter; each action is one call  *)
(* on it, or one step of the async generator its stream_data() returned.     *)

MaxLimit == 2            \* largest `limit` passed to a query
MaxTableRows == 3        \* most rows the market_data table holds for a query
MaxPending == 1          \* most points one poll iteration of a stream yields
MaxPolls == 2            \* poll iterations one stream is followed for

CacheRows == 5           \* _get_from_cache: sample_data has range(5) entries

Gemfire == "gemfire_cache"
Mssql == "mssql_historical"

SymbolLists == {<<>>, <<"AAPL">>, <<"MSFT">>, <<"AAPL", "MSFT">>}
Limits == 0..MaxLimit
\* [start_time, end_time], as ages in minutes before now: newest first
Ranges == {<<0, 0>>, <<CacheRows, 0>>}

Min(x, y) == IF x < y THEN x ELSE y

\* for data in cached_data[:limit], for each symbol in turn
GemfireLatest(symbols, limit) ==
    Flatten([k \in 1..Len(symbols) |->
                [i \in 1..Min(limit, CacheRows) |-> [symbol |-> symbols[k], age |-> i - 1]]])

\* SELECT TOP {limit} ... WHERE symbol IN (...) ORDER BY timestamp DESC: what
\* the table may hold for the query, cut to `limit` rows
MssqlRows(symbols, limit) ==
    IF symbols = <<>> THEN {<<>>}
    ELSE {[k \in 1..Min(limit, n) |->
              [symbol |-> symbols[((k - 1) % Len(symbols)) + 1], age |-> k - 1]] :
             n \in 0..MaxTableRows}

InRange(p, range) == range[2] <= p.age /\ p.age <= range[1]

Take(seq, n) == SubSeq(seq, 1, Min(n, Len(seq)))

\* the `if not self._connected: raise` at the head of each query, caught by
\* the query's own except, which returns []
NotConnectedRaisesMutant(a) == ~connected[a] /\ ~reachable[a]

NotConnectedRaises(a) == ~connected[a]

\* get_latest_data: the lists it may return
LatestData(a, symbols, limit) ==
    IF NotConnectedRaises(a) THEN {<<>>}
    ELSE IF a = Gemfire THEN {GemfireLatest(symbols, limit)}
    ELSE IF ~reachable[a] THEN {<<>>}
    ELSE MssqlRows(symbols, limit)

\* get_historical_data: Gemfire filters what get_latest_data returned and
\* cuts it to limit; MSSQL runs the query with the two time bounds
HistoricalData(a, symbols, range, limit) ==
    IF a = Gemfire
    THEN {Take(SelectSeq(rows, LAMBDA p : InRange(p, range)), limit) :
             rows \in LatestData(a, symbols, limit)}
    ELSE IF NotConnectedRaises(a) \/ ~reachable[a] THEN {<<>>}
    ELSE {SelectSeq(rows, LAMBDA p : InRange(p, range)) : rows \in MssqlRows(symbols, limit)}

Target == adapter_call.adapter

ManagerIdle ==
    UNCHANGED <<adapters, health_check_task, health_tasks, lifecycle, query,
                connect_failed, to_disconnect, det_vars, ml_vars, eng_vars>>

CallRecord(op, symbols, limit, result, returned) ==
    [op |-> op, adapter |-> Target, symbols |-> symbols, limit |-> limit,
     result |-> result, returned |-> returned, before |-> connected[Target]]

StreamRunning == stream.pc \in {"poll", "sleeping"}

\* the flag of the adapter under study is written; a running stream whose
\* adapter goes from connected to not connected has been dropped
FlagWritten(value) ==
    /\ connected' = [connected EXCEPT ![Target] = value]
    /\ stream' = IF StreamRunning /\ connected[Target] /\ ~value
                 THEN [stream EXCEPT !.dropped = TRUE]
                 ELSE stream

\* connect(): True and _connected = True, or the exception is caught and
\* _connected = False
Connect ==
    /\ FlagWritten(ConnectSucceeds(Target))
    /\ adapter_call' = CallRecord("connect", <<>>, 0, <<>>,
                                  IF ConnectSucceeds(Target) THEN "true" ELSE "false")
    /\ UNCHANGED <<last_heartbeat, reachable>>
    /\ ManagerIdle

Disconnect ==
    /\ \E outcome \in DisconnectOutcomes :
          /\ FlagWritten(ConnectedAfterDisconnect(connected[Target], outcome))
          /\ adapter_call' = CallRecord("disconnect", <<>>, 0, <<>>,
                                        IF outcome = "true" THEN "true" ELSE "false")
    /\ UNCHANGED <<last_heartbeat, reachable>>
    /\ ManagerIdle

StoreChanges ==
    /\ reachable' = [reachable EXCEPT ![Target] = ~@]
    /\ UNCHANGED <<connected, last_heartbeat, ad_vars>>
    /\ ManagerIdle

TestConnection ==
    /\ \E test \in TestOutcomes(Target) :
          adapter_call' = CallRecord("test_connection", <<>>, 0, <<>>,
                                     IF test = "true" THEN "true" ELSE "false")
    /\ UNCHANGED <<connected, last_heartbeat, reachable, stream>>
    /\ ManagerIdle

Heartbeat ==
    /\ \E test \in TestOutcomes(Target) :
          /\ last_heartbeat' = [last_heartbeat EXCEPT
                                   ![Target] = HeartbeatStamp(@, test)]
          /\ adapter_call' = CallRecord("heartbeat", <<>>, 0, <<>>,
                                        IF HeartbeatResult(test) THEN "true" ELSE "false")
    /\ UNCHANGED <<connected, reachable, stream>>
    /\ ManagerIdle

GetLatestData ==
    /\ \E symbols \in SymbolLists, limit \in Limits :
          \E rows \in LatestData(Target, symbols, limit) :
              adapter_call' = CallRecord("get_latest_data", symbols, limit, rows, "list")
    /\ UNCHANGED <<connected, last_heartbeat, reachable, stream>>
    /\ ManagerIdle

GetHistoricalData ==
    /\ \E symbols \in SymbolLists, limit \in Limits, range \in Ranges :
          \E rows \in HistoricalData(Target, symbols, range, limit) :
              adapter_call' = CallRecord("get_historical_data", symbols, limit, rows, "list")
    /\ UNCHANGED <<connected, last_heartbeat, reachable, stream>>
    /\ ManagerIdle

AdapterUnchanged == UNCHANGED <<connected, last_heartbeat, reachable, adapter_call>>

\* stream_data(symbols): the generator object is made, none of its code runs
StreamData ==
    /\ stream.pc = "none"
    /\ \E symbols \in SymbolLists \ {<<>>} :
          stream' = [NoStream EXCEPT !.pc = "created", !.symbols = symbols]
    /\ AdapterUnchanged
    /\ ManagerIdle

\* `while self._connected:` is evaluated: a poll iteration starts and fetches
\* the points it will yield, or the sequence ends
LoopCheck(s) ==
    IF connected[Target]
    THEN {[s EXCEPT !.pc = "poll", !.pending = n, !.polls = @ + 1,
                    !.polls_after_drop = IF s.dropped THEN @ + 1 ELSE @] :
             n \in 0..MaxPending}
    ELSE {[s EXCEPT !.pc = "ended"]}

\* the first __anext__: `if not self._connected: raise`, caught by the
\* generator's own except, which ends the sequence; else the loop is entered
StreamEnter ==
    /\ stream.pc = "created"
    /\ stream' \in LoopCheck([stream EXCEPT !.entered_connected = connected[Target]])
    /\ AdapterUnchanged
    /\ ManagerIdle

\* `yield data_point`, and the consumer asks for the next point
StreamYield ==
    /\ stream.pc = "poll"
    /\ stream.pending > 0
    /\ stream' = [stream EXCEPT !.pending = @ - 1, !.yielded = @ + 1]
    /\ AdapterUnchanged
    /\ ManagerIdle

\* `await asyncio.sleep(...)` at the end of the poll iteration
StreamSleep ==
    /\ stream.pc = "poll"
    /\ stream.pending = 0
    /\ stream' = [stream EXCEPT !.pc = "sleeping"]
    /\ AdapterUnchanged
    /\ ManagerIdle

\* the sleep is over and the loop condition is evaluated again
StreamWake ==
    /\ stream.pc = "sleeping"
    /\ stream.polls < MaxPolls
    /\ stream' \in LoopCheck([stream EXCEPT
                                 !.sleeps_after_drop = IF stream.dropped THEN @ + 1 ELSE @])
    /\ AdapterUnchanged
    /\ ManagerIdle

StreamNext == StreamData \/ StreamEnter \/ StreamYield \/ StreamSleep \/ StreamWake

AdapterInit ==
    /\ DetectorsIdle
    /\ MLUnused
    /\ adapters = <<>>
    /\ connected = [a \in Names |-> FALSE]
    /\ last_heartbeat = [a \in Names |-> "None"]
    /\ health_check_task = 0
    /\ health_tasks = [t \in TaskIds |-> NoTask]
    /\ lifecycle = [pc |-> "idle", idx |-> 0, inits |-> 0, last |-> "none"]
    /\ query = NoQuery
    /\ connect_failed = {}
    /\ to_disconnect = {}
    /\ reachable = [a \in Names |-> TRUE]
    /\ \E a \in Names : adapter_call = [NoCall EXCEPT !.adapter = a]
    /\ stream = NoStream
    /\ config = NoConfig
    /\ engine = NoEngine

\* the calls that return at once
AdapterNext ==
    \/ Connect \/ Disconnect \/ StoreChanges
    \/ TestConnection \/ Heartbeat
    \/ GetLatestData \/ GetHistoricalData

AdapterSpec == AdapterInit /\ [][AdapterNext]_vars

\* a stream and its consumer, while the adapter is connected and disconnected
StreamingNext == Connect \/ Disconnect \/ StoreChanges \/ StreamNext

StreamSpec == AdapterInit /\ [][StreamingNext]_vars


-----------------------------------------------------------------------------
(* Claims about one adapter, checked under AdapterSpec and StreamSpec *)

\* C17: for every adapter, every list of symbols and every limit, one
\* get_latest_data(symbols, limit) call returns at most `limit` points in
\* total, whatever the number of symbols.
C17_AtMostLimitPoints ==
    adapter_call.op = "get_latest_data" =>
        Len(adapter_call.result) <= adapter_call.limit

\* C18: on an adapter whose connected flag is false, get_latest_data and
\* get_historical_data return an empty list, do not raise, and leave the
\* connected flag and the rest of the adapter's state as they were.
C18_DisconnectedReturnsEmpty ==
    [][ ((GetLatestData \/ GetHistoricalData) /\ ~connected[Target]) =>
            /\ adapter_call'.returned = "list"
            /\ adapter_call'.result = <<>>
            /\ UNCHANGED <<connected, last_heartbeat, stream>> ]_vars

\* a query for both symbols, on an adapter that was connected (its heartbeat
\* succeeded) and is not any more, while its store is reachable
C18_Witness ==
    /\ adapter_call.op \in {"get_latest_data", "get_historical_data"}
    /\ ~adapter_call.before
    /\ Len(adapter_call.symbols) = 2
    /\ adapter_call.limit > 0
    /\ adapter_call.result = <<>>
    /\ reachable[Target]
    /\ last_heartbeat[Target] = "after_true"

\* C19: once the connected flag has become false, a running stream starts no
\* further poll iteration and ends within one poll interval; a stream entered
\* on a non-connected adapter ends at once without yielding a point.
C19_StreamStopsOnceDisconnected ==
    /\ stream.dropped =>
          /\ stream.polls_after_drop = 0
          /\ stream.sleeps_after_drop <= 1
          /\ stream.sleeps_after_drop = 1 => stream.pc = "ended"
    /\ (stream.pc \notin {"none", "created"} /\ ~stream.entered_connected) =>
          stream.pc = "ended" /\ stream.yielded = 0

\* C20: test_connection() and heartbeat() never change the connected flag and
\* never call connect; on a disconnected adapter they return False.
C20_TestConnectionLeavesFlag ==
    [][ (TestConnection \/ Heartbeat) =>
            /\ connected' = connected
            /\ adapter_call'.op \in {"test_connection", "heartbeat"}
            /\ ~connected[Target] => adapter_call'.returned = "false" ]_vars

\* a heartbeat on an adapter that was disconnected while its store stayed
\* reachable: it returned False and the flag is still false
C20_Witness ==
    /\ adapter_call.op = "heartbeat"
    /\ ~adapter_call.before
    /\ adapter_call.returned = "false"
    /\ ~connected[Target]
    /\ reachable[Target]
    /\ last_heartbeat[Target] = "after_false"


-----------------------------------------------------------------------------
(* Claims about the heartbeat bookkeeping, checked under AdapterSpec *)

\* C27: get_last_heartbeat() is the time of the last successful heartbeat: the
\* stored timestamp is written only by a heartbeat whose test_connection
\* returned true, and a heartbeat that returned false or raised leaves it.
C27_LastHeartbeatIsLastSuccess ==
    \A a \in Names : last_heartbeat[a] # "after_false"


-----------------------------------------------------------------------------
(* Further claims about the registry, checked under ManagerSpec *)

AliveHealthTasks == {t \in TaskIds : health_tasks[t].pc \notin {"none", "done"}}

\* C29: across any sequence of initialize() and shutdown() calls at most one
\* health-check task is alive at any time, and none is alive after shutdown()
\* returned.
C29_AtMostOneHealthTask ==
    /\ Cardinality(AliveHealthTasks) <= 1
    /\ ShutdownReturned => AliveHealthTasks = {}


-----------------------------------------------------------------------------
(* Further claims about the registry, checked under FanoutSpec *)

\* C30: the registry only holds adapters that connected successfully; only
\* initialize() adds to it and only shutdown() removes from it; right after
\* initialize() every registered adapter is connected; a configuration of an
\* unimplemented type or whose connect failed registers nothing and does not
\* end initialize(); a fan-out query targets registered, connected adapters
\* only, whatever source names were asked for.
C30_RegistryHoldsConnectedOnly ==
    /\ [](InitializeReturned => \A a \in Registered : connected[a])
    /\ [](Registered \subseteq Names)
    /\ [][ /\ Len(adapters') > Len(adapters) =>
                /\ lifecycle.pc = "initialize"
                /\ \A a \in Registered' \ Registered : connected'[a]
           /\ Len(adapters') < Len(adapters) => lifecycle.pc = "shutdown"
           /\ (lifecycle.pc = "initialize" /\ lifecycle.idx <= Len(Configs)) =>
                /\ lifecycle'.pc = "initialize"
                /\ (~CreateAdapter(Configs[lifecycle.idx])
                    \/ connect_failed' # connect_failed) => adapters' = adapters
           /\ (query'.pc = "await" /\ query.pc # "await") =>
                \A k \in 1..Len(query'.tasks) :
                    query'.tasks[k] \in Registered /\ connected[query'.tasks[k]]
         ]_vars

\* initialize() returned with one source registered while the connect of the
\* other failed and the configuration of the unimplemented type was passed
\* over, and a query that was given one task has returned
C30_Witness ==
    /\ InitializeReturned
    /\ Len(adapters) = 1
    /\ connect_failed # {}
    /\ query.pc = "done"
    /\ Len(query.tasks) = 1


\* C25: the fan-out queries run concurrently: the query of every connected
\* target adapter is started before any of them is waited for to complete,
\* so once one adapter's query has completed every other one has begun.
C25_QueriesStartBeforeAnyCompletes ==
    (query.pc \in {"await", "done"} /\ Len(query.outcomes) > 0) =>
        \A k \in 1..Len(query.tasks) :
            \E i \in 1..Len(query.started) : query.started[i] = query.tasks[k]


-----------------------------------------------------------------------------
(* Further claims about AnomalyMLModel, checked under MLSpec *)

\* C23: save_model followed by load_model is a round trip: the load returns
\* True and the object has the is_trained flag, feature_columns,
\* contamination, model and scaler the saved object had; a load that fails
\* returns False, it does not raise.
C23_SaveLoadRoundTrip ==
    [][ LoadModel =>
          IF ml_file = <<>>
          THEN ml_last'.result = "False" /\ ml_self' = ml_self
          ELSE ml_last'.result = "True" /\ ml_self' = ml_saved[1] ]_vars

\* a fresh object has loaded the file a trained object was saved to
C23_Witness ==
    /\ ml_last.op = "load"
    /\ ml_last.input = "fresh"
    /\ ml_last.result = "True"
    /\ ml_self.is_trained
    /\ ml_self.model > 0
    /\ ml_self.scaler = ml_self.model
    /\ ml_self = ml_saved[1]


-----------------------------------------------------------------------------
(* AnomalyMLModel.predict_anomalies on a batch of points: which point each   *)
(* reported anomaly is attributed to.                                       *)

\* prepare_features: df.sort_values('timestamp') puts the rows in time order,
\* and the feature rows keep that order
FeatureRowOrigins(batch) == TimeSorted(batch)

\* data_point = data_points[i] for the i-th prediction
AttributedPoint(batch, i) == batch[i]

\* the anomalies built for the feature rows the model flags (-1), in order;
\* `scored` is the point the flagged feature row was computed from
MLAnomalies(batch, rows, flagged) ==
    LET hits == SelectSeq([i \in 1..Len(batch) |-> i], LAMBDA i : i \in flagged)
    IN [k \in 1..Len(hits) |->
           [symbol |-> AttributedPoint(batch, hits[k]).symbol,
            anomaly_type |-> "ml_detected",
            data_timestamp |-> AttributedPoint(batch, hits[k]).timestamp,
            scored |-> rows[hits[k]]]]

PredictOnBatch ==
    /\ det_pc = "ready"
    /\ ml_self.is_trained /\ ml_self.scaler > 0 /\ ml_self.model > 0
    /\ \E rows \in FeatureRowOrigins(data_points), flagged \in SUBSET (1..Len(data_points)) :
          anomalies' = MLAnomalies(data_points, rows, flagged)
    /\ det_pc' = "done"
    /\ called' = "AnomalyMLModel.predict_anomalies"
    /\ ml_last' = [op |-> "predict", input |-> "good", failure |-> "none",
                   result |-> IF anomalies' = <<>> THEN "[]" ELSE "anomalies"]
    /\ UNCHANGED <<data_points, threshold, window_size, symbol_data,
                   ml_self, ml_file, ml_trained_once, ml_saved, mgr_vars, ad_vars, eng_vars>>

\* a trained model and a batch of well-formed points in any order
PredictInit ==
    /\ data_points \in Batches(MissingPoints, MaxPoints)
    /\ threshold = 0
    /\ window_size = 0
    /\ symbol_data = [s \in Symbols |-> <<>>]
    /\ anomalies = <<>>
    /\ det_pc = "ready"
    /\ called = "none"
    /\ ManagerUnused
    /\ ml_self = [NewModel("valid") EXCEPT !.model = 1, !.scaler = 1, !.is_trained = TRUE]
    /\ ml_file = <<>>
    /\ ml_last = [op |-> "train", input |-> "good", failure |-> "none", result |-> "True"]
    /\ ml_trained_once = TRUE
    /\ ml_saved = <<>>

PredictNext == PredictOnBatch

PredictSpec == PredictInit /\ [][PredictNext]_vars

\* C28: for every batch, in any order, each anomaly predict_anomalies returns
\* carries the symbol and data_timestamp of the data point whose feature row
\* the model scored as anomalous.
C28_AnomalyNamesScoredPoint ==
    called = "AnomalyMLModel.predict_anomalies" =>
        \A k \in 1..Len(anomalies) :
            /\ anomalies[k].symbol = anomalies[k].scored.symbol
            /\ anomalies[k].data_timestamp = anomalies[k].scored.timestamp


-----------------------------------------------------------------------------
(* ConfigLoader: load_data_sources and load_alert_rules on one YAML file.    *)

MaxEntries == 2         \* most entries in one configuration file

DataSourceType == {"gemfire", "eod", "mssql", "hbase"}

DataType == {"price", "volume", "trade", "quote", "order_book", "index", "reference"}

AnomalyType == {"missing_data", "price_movement", "data_stale", "volume_spike",
                "data_quality"}

Severity == {"low", "medium", "high", "critical"}

\* values a file may carry where the loader expects an enum value; the last of
\* each is no member of the enum
TypeValues == {"gemfire", "hbase", "kafka"}
DataTypeLists == {<<>>, <<"price">>, <<"candle">>, <<"price", "candle">>}
AnomalyTypeLists == {<<"missing_data">>, <<"latency">>, <<"missing_data", "latency">>}
SeverityValues == {"absent", "high", "urgent"}
SourceLists == {<<>>, <<"gemfire">>, <<"kafka">>}

EntryName(i) == IF i = 1 THEN "first" ELSE IF i = 2 THEN "second" ELSE "third"

\* the files of up to n entries: the i-th entry is named EntryName(i)
FilesOf(fields, n) ==
    UNION {{[i \in 1..k |-> [name |-> EntryName(i)] @@ f[i]] : f \in [1..k -> fields]}
           : k \in 0..n}

SourceFiles(n) == FilesOf([type : TypeValues, expected_data_types : DataTypeLists], n)

RuleFiles(n) ==
    FilesOf([anomaly_types : AnomalyTypeLists, min_severity : SeverityValues,
             data_sources : SourceLists], n)

\* the inner `try: append(Enum(v)) except ValueError: warning`: the members
\* of the enum that the list names, in order
KnownOf(values, enum) == SelectSeq(values, LAMBDA v : v \in enum)

\* min_severity = Severity.MEDIUM, replaced when Severity(...) of the entry's
\* value (default 'medium') does not raise
ParseSeverity(value) ==
    IF value = "absent" THEN "medium"
    ELSE IF value \in Severity THEN value
    ELSE "medium"

\* [DataSourceType(ds) for ds in ...] raises ValueError at an unknown value
RuleSourcesRaiseMutant(entry) == FALSE

RuleSourcesRaise(entry) ==
    \E k \in DOMAIN entry.data_sources : entry.data_sources[k] \notin DataSourceType

\* ds_type = DataSourceType(ds_config['type']) raises ValueError
SourceTypeRaises(entry) == entry.type \notin DataSourceType

ParsedSource(entry) ==
    [name |-> entry.name, type |-> entry.type,
     expected_data_types |-> KnownOf(entry.expected_data_types, DataType)]

ParsedRule(entry) ==
    [name |-> entry.name,
     anomaly_types |-> KnownOf(entry.anomaly_types, AnomalyType),
     min_severity |-> ParseSeverity(entry.min_severity),
     data_sources |-> KnownOf(entry.data_sources, DataSourceType)]

\* the loop over the entries: an entry whose parsing raises is passed over by
\* `except Exception: ... continue`, the others are appended in file order
LoadSourceEntries(entries) ==
    LET data_sources[i \in 0..Len(entries)] ==
            IF i = 0 THEN <<>>
            ELSE IF SourceTypeRaises(entries[i]) THEN data_sources[i - 1]
            ELSE Append(data_sources[i - 1], ParsedSource(entries[i]))
    IN data_sources[Len(entries)]

LoadRuleEntries(entries) ==
    LET alert_rules[i \in 0..Len(entries)] ==
            IF i = 0 THEN <<>>
            ELSE IF RuleSourcesRaise(entries[i]) THEN alert_rules[i - 1]
            ELSE Append(alert_rules[i - 1], ParsedRule(entries[i]))
    IN alert_rules[Len(entries)]

LoadDataSources ==
    /\ config.pc = "ready"
    /\ config.kind = "data_sources"
    /\ config' = [config EXCEPT
                    !.pc = "done",
                    !.loaded = LoadSourceEntries(config.entries)]
    /\ UNCHANGED <<engine, det_vars, mgr_vars, ml_vars, ad_vars>>

LoadAlertRules ==
    /\ config.pc = "ready"
    /\ config.kind = "alert_rules"
    /\ config' = [config EXCEPT
                    !.pc = "done",
                    !.loaded = LoadRuleEntries(config.entries)]
    /\ UNCHANGED <<engine, det_vars, mgr_vars, ml_vars, ad_vars>>

ConfigInit ==
    /\ DetectorsIdle
    /\ RegistryConstructed
    /\ reachable = [a \in Names |-> TRUE]
    /\ MLUnused
    /\ engine = NoEngine
    /\ \/ \E entries \in SourceFiles(MaxEntries) :
             config = [kind |-> "data_sources", entries |-> entries, pc |-> "ready",
                       loaded |-> <<>>]
       \/ \E entries \in RuleFiles(MaxEntries) :
             config = [kind |-> "alert_rules", entries |-> entries, pc |-> "ready",
                       loaded |-> <<>>]

ConfigNext == LoadDataSources \/ LoadAlertRules

ConfigSpec == ConfigInit /\ [][ConfigNext]_vars

\* the names of a list of entries, in order
NamesOf(entries) == [i \in DOMAIN entries |-> entries[i].name]

\* an entry carrying an unknown enum value of the kinds the claim lists
HasUnknownEnum(entry) ==
    IF config.kind = "data_sources" THEN entry.type \notin DataSourceType
    ELSE \/ \E k \in DOMAIN entry.anomaly_types : entry.anomaly_types[k] \notin AnomalyType
         \/ entry.min_severity \notin Severity \cup {"absent"}
         \/ \E k \in DOMAIN entry.data_sources : entry.data_sources[k] \notin DataSourceType

\* an entry the loader passes over as a whole
SkippedWhole(entry) ==
    IF config.kind = "data_sources" THEN entry.type \notin DataSourceType
    ELSE \E k \in DOMAIN entry.data_sources : entry.data_sources[k] \notin DataSourceType

\* C24 as stated: the loaded list holds exactly the entries of the file that
\* carry no unknown enum value, in file order.
C24_UnknownEnumEntrySkipped ==
    config.pc = "done" =>
        NamesOf(config.loaded)
            = NamesOf(SelectSeq(config.entries, LAMBDA e : ~HasUnknownEnum(e)))

\* C24 amended: a data-source entry of unknown type and an alert-rule entry
\* naming an unknown data source are skipped as a whole; every other entry of
\* the file is loaded, in file order, an alert rule without its unknown
\* anomaly types and with min_severity medium in place of an unknown severity.
C24_UnknownSourceEntrySkipped ==
    config.pc = "done" =>
        /\ NamesOf(config.loaded)
              = NamesOf(SelectSeq(config.entries, LAMBDA e : ~SkippedWhole(e)))
        /\ config.kind = "alert_rules" =>
              \A i \in DOMAIN config.loaded :
                 \E k \in DOMAIN config.entries :
                    /\ config.entries[k].name = config.loaded[i].name
                    /\ config.loaded[i].anomaly_types
                          = SelectSeq(config.entries[k].anomaly_types,
                                      LAMBDA v : v \in AnomalyType)
                    /\ config.loaded[i].min_severity
                          = (IF config.entries[k].min_severity \in Severity
                             THEN config.entries[k].min_severity ELSE "medium")
                    /\ \A j \in DOMAIN config.loaded[i].data_sources :
                          config.loaded[i].data_sources[j] \in DataSourceType
        /\ config.kind = "data_sources" =>
              \A i \in DOMAIN config.loaded : config.loaded[i].type \in DataSourceType

\* a rule file was loaded: the first rule names an unknown data source and was
\* skipped, the second carries an unknown anomaly type and an unknown severity
\* and was loaded
C24_Witness ==
    /\ config.pc = "done"
    /\ config.kind = "alert_rules"
    /\ Len(config.entries) = 2
    /\ config.entries[1].data_sources = <<"kafka">>
    /\ config.entries[2].anomaly_types = <<"missing_data", "latency">>
    /\ config.entries[2].min_severity = "urgent"
    /\ config.entries[2].data_sources = <<"gemfire">>
    /\ NamesOf(config.loaded) = <<"second">>
    /\ config.loaded[1].anomaly_types = <<"missing_data">>
    /\ config.loaded[1].min_severity = "medium"


-----------------------------------------------------------------------------
(* AlertRuleEngine: one AlertRule evaluated against the anomalies that       *)
(* arrive as the clock advances.  Times are minutes since the engine started.*)

MaxClock == 75          \* the clock runs from 0 to MaxClock minutes

HourMinutes == 60       \* the trailing hour

\* the clock advances by one of these numbers of minutes between evaluations
ClockSteps == {14, 15, 45}

SeverityRank(s) ==
    IF s = "low" THEN 1 ELSE IF s = "medium" THEN 2 ELSE IF s = "high" THEN 3 ELSE 4

\* the rules under study: AlertRule with its rate limiting fields
AlertRules ==
    [enabled : BOOLEAN, symbols : {<<"AAPL">>}, min_severity : {"medium"},
     max_alerts_per_hour : {1, 2}, cooldown_minutes : {0, 15}]

IncomingAnomalies == [symbol : Symbols, severity : {"low", "high"}]

\* checks (a)-(e): enabled, symbol allow-list (empty means all), minimum
\* severity, active hours
PassesFilters(rule, anomaly, in_active_hours) ==
    /\ rule.enabled
    /\ rule.symbols = <<>> \/ \E k \in DOMAIN rule.symbols : rule.symbols[k] = anomaly.symbol
    /\ SeverityRank(anomaly.severity) >= SeverityRank(rule.min_severity)
    /\ in_active_hours

\* the alerts of the rule sent in the trailing hour
SentInTrailingHour(sent, now) == SelectSeq(sent, LAMBDA t : t > now - HourMinutes)

\* check (f): max_alerts_per_hour is not used up in the trailing hour
UnderCapMutant(rule, sent, now) ==
    Len(SentInTrailingHour(sent, now)) <= rule.max_alerts_per_hour

UnderCap(rule, sent, now) ==
    Len(SentInTrailingHour(sent, now)) < rule.max_alerts_per_hour

\* check (g): cooldown_minutes have elapsed since the last dispatched alert
CooledDownMutant(rule, last_alert, now) ==
    last_alert = NoValue \/ now - last_alert >= rule.cooldown_minutes \div HourMinutes

CooledDown(rule, last_alert, now) ==
    last_alert = NoValue \/ now - last_alert >= rule.cooldown_minutes

\* one anomaly evaluated against the rule: the rule dispatches and updates
\* its rate and cooldown state in one step, or is skipped without a change
Evaluate ==
    /\ engine.pc = "running"
    /\ \E anomaly \in IncomingAnomalies, in_active_hours \in BOOLEAN :
          LET qualifies == PassesFilters(engine.rule, anomaly, in_active_hours)
              dispatch == /\ qualifies
                          /\ UnderCap(engine.rule, engine.sent, engine.now)
                          /\ CooledDown(engine.rule, engine.last_alert, engine.now)
              last == [op |-> "evaluate", qualifies |-> qualifies, dispatched |-> dispatch]
          IN engine' =
                IF dispatch
                THEN [engine EXCEPT
                        !.sent = Append(SentInTrailingHour(@, engine.now), engine.now),
                        !.last_alert = engine.now,
                        !.dispatches = Append(@, engine.now),
                        !.last = last]
                ELSE [engine EXCEPT !.last = last]
    /\ UNCHANGED <<config, det_vars, mgr_vars, ml_vars, ad_vars>>

ClockAdvances ==
    /\ engine.pc = "running"
    /\ \E d \in ClockSteps :
          /\ engine.now + d <= MaxClock
          /\ engine' = [engine EXCEPT
                          !.now = @ + d,
                          !.last = [op |-> "tick", qualifies |-> FALSE, dispatched |-> FALSE]]
    /\ UNCHANGED <<config, det_vars, mgr_vars, ml_vars, ad_vars>>

AlertInit ==
    /\ DetectorsIdle
    /\ RegistryConstructed
    /\ reachable = [a \in Names |-> TRUE]
    /\ MLUnused
    /\ config = NoConfig
    /\ \E rule \in AlertRules :
          engine = [pc |-> "running", rule |-> rule, now |-> 0, sent |-> <<>>,
                    last_alert |-> NoValue, dispatches |-> <<>>,
                    last |-> [op |-> "none", qualifies |-> FALSE, dispatched |-> FALSE]]

AlertNext == Evaluate \/ ClockAdvances

AlertSpec == AlertInit /\ [][AlertNext]_vars

\* the dispatches of the rule in the hour that ends at minute t
DispatchesInHourTo(t) ==
    {k \in DOMAIN engine.dispatches :
        engine.dispatches[k] > t - HourMinutes /\ engine.dispatches[k] <= t}

\* C21: the dispatches of a rule within any trailing hour never number more
\* than its max_alerts_per_hour; with max_alerts_per_hour = 1 a qualifying
\* anomaly is dispatched exactly when no dispatch lies in its trailing hour,
\* so two qualifying anomalies in one hour give one dispatch.
C21_HourlyCapHolds ==
    /\ [](engine.pc = "running" =>
            \A t \in 0..MaxClock :
               Cardinality(DispatchesInHourTo(t)) <= engine.rule.max_alerts_per_hour)
    /\ [][(Evaluate /\ engine'.last.qualifies /\ engine.rule.max_alerts_per_hour = 1)
             => (engine'.last.dispatched <=> DispatchesInHourTo(engine.now) = {})]_vars

\* the cap is 1, two qualifying anomalies were evaluated within one hour and
\* the second was not dispatched
C21_Witness ==
    /\ engine.pc = "running"
    /\ engine.rule.max_alerts_per_hour = 1
    /\ engine.rule.cooldown_minutes = 0
    /\ engine.last.op = "evaluate" /\ engine.last.qualifies /\ ~engine.last.dispatched
    /\ Len(engine.dispatches) = 1
    /\ engine.now > engine.dispatches[1]
    /\ engine.now - engine.dispatches[1] < HourMinutes

\* C22: a qualifying anomaly that arrives less than cooldown_minutes after
\* the rule's last dispatch is not dispatched, whatever the hourly count, so
\* consecutive dispatches are at least cooldown_minutes apart; an evaluation
\* that does not dispatch leaves the rule's rate and cooldown state as it was.
C22_CooldownHolds ==
    /\ [](engine.pc = "running" =>
            \A k \in 1..(Len(engine.dispatches) - 1) :
               engine.dispatches[k + 1] - engine.dispatches[k]
                  >= engine.rule.cooldown_minutes)
    /\ [][Evaluate =>
            /\ (/\ engine.dispatches # <<>>
                /\ engine.now - engine.dispatches[Len(engine.dispatches)]
                      < engine.rule.cooldown_minutes)
               => ~engine'.last.dispatched
            /\ ~engine'.last.dispatched =>
                  /\ engine'.sent = engine.sent
                  /\ engine'.last_alert = engine.last_alert
                  /\ engine'.dispatches = engine.dispatches]_vars

\* a qualifying anomaly was suppressed by the cooldown alone: one alert was
\* sent in the trailing hour, the cap is 2, and fewer than cooldown_minutes
\* have passed since that alert
C22_Witness ==
    /\ engine.pc = "running"
    /\ engine.rule.max_alerts_per_hour = 2
    /\ engine.rule.cooldown_minutes = 15
    /\ engine.last.op = "evaluate" /\ engine.last.qualifies /\ ~engine.last.dispatched
    /\ Len(engine.dispatches) = 1
    /\ engine.now - engine.dispatches[1] = 14
    /\ engine.sent = <<engine.dispatches[1]>>


-----------------------------------------------------------------------------
(* The detectors symbol by symbol *)

\* what the call that was made may return on a batch it does not fail on
ReturnedOn(batch) ==
    IF called = "TimeSeriesAnomalyModel.detect_time_series_anomalies"
    THEN LET U == Unique(batch)
         IN UNION {{Flatten([k \in 1..Len(U) |->
                               ZScoreForSymbol(sd[U[k]], U[k], window_size,
                                               HasColumn(batch, "volume"), tie)]) :
                       sd \in TimeSortedChoices(batch)} : tie \in BOOLEAN}
    ELSE ResultsOn(batch)

\* C26: for each of the three detectors and each symbol S of the batch whose
\* own points the detector accepts, the call returns and the anomalies it
\* reports for S are those it reports on the batch restricted to the points
\* of S, whatever points of other symbols the batch holds.
C26_SymbolsIndependent ==
    det_pc \in {"done", "raised"} =>
        \A s \in Symbols :
            (RowsOf(data_points, s) # <<>> /\ s \notin FailingSymbols) =>
                /\ det_pc = "done"
                /\ RowsOf(anomalies, s) \in ReturnedOn(RowsOf(data_points, s))

=============================================================================
